---- MODULE Spec2Model ----
(***************************************************************************)
(* Credential session lifecycle of aws-profile-switcher: the Flask         *)
(* SessionManager (api/session_manager.py), the request handlers of        *)
(* api/flask_app.py that drive it, and the readers of the process-wide     *)
(* ambient context os.environ (s3/manager.py, aws/credentials.py).         *)
(*                                                                         *)
(* Time is counted in minutes.  A credential set is named by the id of the *)
(* trust exchange that issued it; AccessKeyId, SecretAccessKey and         *)
(* SessionToken of one set carry that id, so that a mixture of two sets in *)
(* the ambient context is visible.                                         *)
(***************************************************************************)
EXTENDS Integers, Sequences, FiniteSets, TLC

\* ------------------------------------------------------------------ bounds
MaxNow == 3
MaxDuration == 6
\* requests begun in a run of the threaded server (SpecThreaded)
MaxStarted == 3

\* --------------------------------------------------------------- constants
\* timedelta(minutes=5), the buffer subtracted from Expiration
Grace == 5

Clients == {"c1", "c2"}
AssumedIds == {"A", "B"}
BaseId == "base"
Profiles == {"default", "work"}
DefaultProfile == "default"
\* os.environ.get(var) of a variable that is not set (None)
Absent == "<absent>"
\* the provider issues credentials valid for longer than the buffer
Durations == (Grace + 1)..MaxDuration

\* An optional value: <<>> is None / no attribute / key not in dict.
NoneVal == <<>>
Some(v) == <<v>>
IsSet(o) == Len(o) > 0
Val(o) == o[1]

VARIABLES
    env,                      \* os.environ restricted to the four AWS variables
    session,                  \* flask session of each browser client
    original_credentials,     \* SessionManager._original_credentials
    app_original_aws_profile, \* app._original_aws_profile (<<>>: no attribute)
    now,                      \* datetime.now(timezone.utc), minutes
    reqs,                     \* request slots: in flight, or the last one served
    started,                  \* requests begun by the threaded server
    credentials_file,         \* ~/.aws/credentials
    config_file,              \* ~/.aws/config
    call,                     \* the manager call in progress, or the last one made
    environments              \* ConfigManager.config['environments'], in dict order

files == <<credentials_file, config_file, call, environments>>
vars == <<env, session, original_credentials, app_original_aws_profile, now, reqs,
          started, credentials_file, config_file, call, environments>>

\* ------------------------------------------------- timestamps (conversions)
\* datetime.isoformat() of an aware UTC datetime: "<t>+00:00"
IsoFormat(t) == <<t, "+00:00">>
\* str.replace('Z', '+00:00')
ReplaceZ(s) == IF s[2] = "Z" THEN <<s[1], "+00:00">> ELSE s
\* datetime.fromisoformat: the instant of "<t>+00:00"; a bare "Z" suffix is
\* not accepted by fromisoformat and yields no instant (ValueError)
BadTime == 0 - 1
FromIsoFormat(s) == IF s[2] = "+00:00" THEN s[1] ELSE BadTime

\* ------------------------------------------------------ the ambient context
EnvVars == {"AWS_ACCESS_KEY_ID", "AWS_SECRET_ACCESS_KEY", "AWS_SESSION_TOKEN", "AWS_PROFILE"}
MkEnv(k, s, t, p) ==
    [AWS_ACCESS_KEY_ID |-> k, AWS_SECRET_ACCESS_KEY |-> s,
     AWS_SESSION_TOKEN |-> t, AWS_PROFILE |-> p]
\* 'VAR' in os.environ
InEnv(e, var) == e[var] # Absent
\* truthiness of os.environ.get(var)
Truthy(v) == v # Absent

\* session of one client: the two keys the manager stores
EmptySession == [assumed_credentials |-> NoneVal, assumed_role |-> NoneVal]
\* the credentials dict returned by assume_role
Creds(id, exp) ==
    [AccessKeyId |-> id, SecretAccessKey |-> id, SessionToken |-> id,
     Expiration |-> IsoFormat(exp)]
RoleOf(id) == IF id = "A" THEN "role-a" ELSE "role-b"

\* the shared state a request step reads and writes
Shared(e, s, oc, ap) == [env |-> e, session |-> s, orig |-> oc, appProf |-> ap]
Cur == Shared(env, session, original_credentials, app_original_aws_profile)

\* ------------------------------------------------------------- a request
\* kind: which handler serves it; pc: the statement it is about to execute
\* (h..: load_session_credentials, a70: cleanup_after_request, the rest the
\* handler); the other fields are its inputs and local variables.
Kinds == {"assume", "remove", "status", "switch_profile", "s3", "switch_environment"}
Outcomes == {"ok", "noclient", "denied"}
NoInfo == [active |-> FALSE, assumed_role |-> NoneVal, credentials_expire |-> NoneVal]
NoClient == [mode |-> "none", kid |-> Absent, sec |-> Absent, tok |-> Absent, prof |-> Absent]
NewReq(c, kind, profile, id, dur, outcome) ==
    [c |-> c, kind |-> kind, pc |-> "h30",
     profile_name |-> profile,      \* api_switch_profile: data['profile_name']
     id |-> id, dur |-> dur,        \* the credential set the provider will issue
     outcome |-> outcome,           \* how the trust exchange will end
     creds |-> NoneVal,             \* hook: creds = session['assumed_credentials']
     expired |-> FALSE,             \* hook took the expiry branch (line 35)
     live |-> FALSE,                \* hook took the install branch (line 42)
     info |-> NoneVal,              \* result of get_session_info()
     result |-> NoneVal,            \* assume_role(): result['credentials']
     old_env |-> NoneVal,           \* _create_sts_client: old_env
     pre |-> NoneVal,               \* os.environ on entry to set_assumed_credentials
     client |-> NoClient,           \* what _create_s3_client read
     is_expired |-> FALSE]          \* result of is_session_expired()
IdleReq == [NewReq("c1", "none", Absent, "A", 0, "ok") EXCEPT !.pc = "idle"]

St(g, r) == [g |-> g, r |-> r]
Goto(g, r, pc) == St(g, [r EXCEPT !.pc = pc])

\* the first statement of the handler, after the before_request hook
HandlerStart(kind) ==
    CASE kind = "assume" -> "sts78"
      [] kind = "remove" -> "g135"
      [] kind = "status" -> "g135"
      [] kind = "switch_profile" -> "p111"
      [] kind = "s3" -> "s3_29"
      [] kind = "switch_environment" -> "e194"
\* the statement after a call of clear_assumed_credentials()
AfterClearCall(kind) == IF kind = "switch_environment" THEN "e198" ELSE "a70"

\* ------------------------------------- SessionManager: before_request hook
\* slips of the comparison of line 35: the buffer forgotten, the boundary included
HookExpired_NoGrace(t, creds) ==
    t > FromIsoFormat(ReplaceZ(creds.Expiration))
HookExpired_Inclusive(t, creds) ==
    t >= FromIsoFormat(ReplaceZ(creds.Expiration)) - Grace
\* line 35: datetime.now(timezone.utc) > (expiration - timedelta(minutes=5))
HookExpired(t, creds) ==
    t > FromIsoFormat(ReplaceZ(creds.Expiration)) - Grace

\* lines 30-35: is there a credential set in the session, and is it expired
Hook30(g, r, t) ==
    LET s == g.session[r.c] IN
    IF IsSet(s.assumed_credentials)
    THEN LET creds == Val(s.assumed_credentials) IN
         IF HookExpired(t, creds)
         THEN St(g, [r EXCEPT !.creds = Some(creds), !.expired = TRUE, !.pc = "h37"])
         ELSE St(g, [r EXCEPT !.creds = Some(creds), !.live = TRUE, !.pc = "h44"])
    ELSE Goto(g, r, "h60")
\* a slip of line 37: the credential set is left in the session
Hook37_KeepCredentials(g, r) == Goto(g, r, "h38")
\* line 37: session.pop('assumed_credentials', None)
Hook37(g, r) ==
    St([g EXCEPT !.session[r.c].assumed_credentials = NoneVal], [r EXCEPT !.pc = "h38"])
\* a slip of line 38: the role label is left in the session
Hook38_KeepRole(g, r) == Goto(g, r, "h60")
\* line 38: session.pop('assumed_role', None); falls through to line 60
Hook38(g, r) ==
    St([g EXCEPT !.session[r.c].assumed_role = NoneVal], [r EXCEPT !.pc = "h60"])
\* lines 44-46: install the session's credential set, one variable a statement
Hook44(g, r) ==
    St([g EXCEPT !.env.AWS_ACCESS_KEY_ID = Val(r.creds).AccessKeyId],
       [r EXCEPT !.pc = "h45"])
Hook45(g, r) ==
    St([g EXCEPT !.env.AWS_SECRET_ACCESS_KEY = Val(r.creds).SecretAccessKey],
       [r EXCEPT !.pc = "h46"])
Hook46(g, r) ==
    St([g EXCEPT !.env.AWS_SESSION_TOKEN = Val(r.creds).SessionToken],
       [r EXCEPT !.pc = "h48"])
\* a slip of lines 48-52: AWS_PROFILE is left in os.environ
Hook48_KeepProfile(g, r) == Goto(g, r, HandlerStart(r.kind))
\* lines 48-52 and the return of line 57
Hook48(g, r) ==
    IF InEnv(g.env, "AWS_PROFILE")
    THEN St([g EXCEPT !.appProf = IF IsSet(g.appProf) THEN g.appProf
                                   ELSE Some(g.env.AWS_PROFILE),
                      !.env.AWS_PROFILE = Absent],
            [r EXCEPT !.pc = HandlerStart(r.kind)])
    ELSE Goto(g, r, HandlerStart(r.kind))
\* lines 60-61: profile-based authentication
Hook60(g, r) ==
    IF ~InEnv(g.env, "AWS_PROFILE")
    THEN St([g EXCEPT !.env.AWS_PROFILE = DefaultProfile],
            [r EXCEPT !.pc = HandlerStart(r.kind)])
    ELSE Goto(g, r, HandlerStart(r.kind))

\* -------------------------------------- SessionManager: after_request hook
\* lines 70-72
After70(g, r) ==
    IF /\ ~IsSet(g.session[r.c].assumed_credentials)
       /\ IsSet(g.appProf)
       /\ ~IsSet(g.orig)
       /\ ~InEnv(g.env, "AWS_PROFILE")
    THEN St([g EXCEPT !.env.AWS_PROFILE = Val(g.appProf)], [r EXCEPT !.pc = "done"])
    ELSE Goto(g, r, "done")

\* ------------------------------------------- SessionManager: the operations
\* lines 81-91: snapshot the ambient context, once
Set81(g, r) ==
    LET original_creds == g.env
        store == \/ Truthy(original_creds.AWS_PROFILE)
                 \/ /\ Truthy(original_creds.AWS_ACCESS_KEY_ID)
                    /\ Truthy(original_creds.AWS_SECRET_ACCESS_KEY)
        r2 == [r EXCEPT !.pre = Some(g.env), !.pc = "s93"]
    IN IF ~IsSet(g.orig) /\ store
       THEN St([g EXCEPT !.orig = Some(original_creds)], r2)
       ELSE St(g, r2)
\* line 93: session['assumed_credentials'] = credentials
Set93(g, r) ==
    St([g EXCEPT !.session[r.c].assumed_credentials = r.result], [r EXCEPT !.pc = "s94"])
\* line 94: session['assumed_role'] = role_name
Set94(g, r) ==
    St([g EXCEPT !.session[r.c].assumed_role = Some(RoleOf(r.id))], [r EXCEPT !.pc = "s97"])
\* lines 97-98
Set97(g, r) ==
    IF InEnv(g.env, "AWS_PROFILE") /\ ~IsSet(g.appProf)
    THEN St([g EXCEPT !.appProf = Some(g.env.AWS_PROFILE)], [r EXCEPT !.pc = "a70"])
    ELSE Goto(g, r, "a70")

\* lines 103, 104: the two session.pop
Clear103(g, r) ==
    St([g EXCEPT !.session[r.c].assumed_credentials = NoneVal], [r EXCEPT !.pc = "c104"])
Clear104(g, r) ==
    St([g EXCEPT !.session[r.c].assumed_role = NoneVal], [r EXCEPT !.pc = "c109k"])
\* lines 108-112: del os.environ[var] for the three key variables
ClearDel(g, r, var, next) ==
    St([g EXCEPT !.env[var] = Absent], [r EXCEPT !.pc = next])
\* line 115: if self._original_credentials
Clear115(g) == IF IsSet(g.orig) THEN "c117k" ELSE "c125"
\* lines 117-119: one iteration of the restoring loop
ClearRestore(g, r, var, next) ==
    IF IsSet(g.orig) /\ Val(g.orig)[var] # Absent
    THEN St([g EXCEPT !.env[var] = Val(g.orig)[var]], [r EXCEPT !.pc = next])
    ELSE Goto(g, r, next)
\* lines 125-131
Clear125(g, r) ==
    IF IsSet(g.appProf)
    THEN St([g EXCEPT !.env.AWS_PROFILE = Val(g.appProf)],
            [r EXCEPT !.pc = AfterClearCall(r.kind)])
    ELSE IF ~InEnv(g.env, "AWS_PROFILE")
         THEN St([g EXCEPT !.env.AWS_PROFILE = DefaultProfile],
                 [r EXCEPT !.pc = AfterClearCall(r.kind)])
         ELSE Goto(g, r, AfterClearCall(r.kind))

\* lines 133-149
get_session_info(sess) ==
    IF ~IsSet(sess.assumed_credentials)
    THEN [active |-> FALSE, assumed_role |-> NoneVal, credentials_expire |-> NoneVal]
    ELSE LET creds == Val(sess.assumed_credentials)
             expiration == FromIsoFormat(ReplaceZ(creds.Expiration))
         IN [active |-> TRUE, assumed_role |-> sess.assumed_role,
             credentials_expire |-> Some(IsoFormat(expiration))]

\* lines 151-160
is_session_expired(sess, t) ==
    IF ~IsSet(sess.assumed_credentials)
    THEN FALSE
    ELSE LET creds == Val(sess.assumed_credentials)
             expiration == FromIsoFormat(ReplaceZ(creds.Expiration))
         IN t > (expiration - Grace)

\* flask_app.py 292 (api_status) and 675-679 (api_remove_assume_role)
Info135(g, r) ==
    LET info == get_session_info(g.session[r.c])
        r2 == [r EXCEPT !.info = Some(info)]
    IN IF r.kind = "remove" /\ info.active
       THEN Goto(g, r2, "c103")
       ELSE Goto(g, r2, "a70")

\* ------------------------------------------------ AWSRoleManager.assume_role
AllAbsent == MkEnv(Absent, Absent, Absent, Absent)
\* _create_sts_client, lines 78-82: remember and remove the four variables
Sts78(g, r) ==
    St([g EXCEPT !.env = AllAbsent], [r EXCEPT !.old_env = Some(g.env), !.pc = "sts85"])
\* _create_sts_client, lines 84-139: choose the profile and build the client
\* (no write to the shared state; the network calls happen here)
Sts85(g, r) == Goto(g, r, "sts146")
\* _create_sts_client, lines 145-148: put back the variables that were set
\* a slip of lines 147-148: the profile name is not put back
RestoreVar_KeysOnly(e, old, var) ==
    IF var # "AWS_PROFILE" /\ old[var] # Absent THEN old[var] ELSE e[var]
RestoreVar(e, old, var) == IF old[var] # Absent THEN old[var] ELSE e[var]
RestoreOldEnv(e, old) ==
    MkEnv(RestoreVar(e, old, "AWS_ACCESS_KEY_ID"),
          RestoreVar(e, old, "AWS_SECRET_ACCESS_KEY"),
          RestoreVar(e, old, "AWS_SESSION_TOKEN"),
          RestoreVar(e, old, "AWS_PROFILE"))
Sts146(g, r) ==
    St([g EXCEPT !.env = RestoreOldEnv(g.env, Val(r.old_env))],
       [r EXCEPT !.old_env = NoneVal,
                 !.pc = IF r.outcome = "noclient" THEN "a70" ELSE "sts188"])
\* assume_role, lines 188-219: the trust exchange; Expiration is absolute
Sts188(g, r, t) ==
    IF r.outcome = "ok"
    THEN St(g, [r EXCEPT !.result = Some(Creds(r.id, t + r.dur)), !.pc = "s81"])
    ELSE Goto(g, r, "a70")

\* ------------------------------------------------- api_switch_environment
\* flask_app.py 194-196: an assumed role of the session is cleared first; the
\* call of switch_environment (line 198) is the statement at e198
Switch194(g, r) ==
    IF IsSet(g.session[r.c].assumed_credentials)
    THEN Goto(g, r, "c103")
    ELSE Goto(g, r, "e198")

\* ------------------------------------ AWSCredentialsManager.switch_profile
\* credentials.py line 111
Switch111(g, r) ==
    St([g EXCEPT !.env.AWS_PROFILE = r.profile_name], [r EXCEPT !.pc = "a70"])

\* ------------------------------------------- S3Manager._create_s3_client
\* line 29: are explicit credentials in the environment
S3c29(g, r) ==
    IF InEnv(g.env, "AWS_ACCESS_KEY_ID") /\ InEnv(g.env, "AWS_SECRET_ACCESS_KEY")
    THEN Goto(g, r, "s3_32")
    ELSE St(g, [r EXCEPT !.client = [NoClient EXCEPT !.mode = "profile",
                                                      !.prof = g.env.AWS_PROFILE],
                         !.pc = "a70"])
\* line 32: os.environ['AWS_ACCESS_KEY_ID'] (KeyError when it is gone)
S3c32(g, r) ==
    IF InEnv(g.env, "AWS_ACCESS_KEY_ID")
    THEN St(g, [r EXCEPT !.client.kid = g.env.AWS_ACCESS_KEY_ID, !.pc = "s3_33"])
    ELSE St(g, [r EXCEPT !.client = [NoClient EXCEPT !.mode = "error"], !.pc = "a70"])
\* line 33: os.environ['AWS_SECRET_ACCESS_KEY']
S3c33(g, r) ==
    IF InEnv(g.env, "AWS_SECRET_ACCESS_KEY")
    THEN St(g, [r EXCEPT !.client.sec = g.env.AWS_SECRET_ACCESS_KEY, !.pc = "s3_34"])
    ELSE St(g, [r EXCEPT !.client = [NoClient EXCEPT !.mode = "error"], !.pc = "a70"])
\* line 34: os.environ.get('AWS_SESSION_TOKEN')
S3c34(g, r) ==
    St(g, [r EXCEPT !.client.tok = g.env.AWS_SESSION_TOKEN,
                    !.client.mode = "explicit", !.pc = "a70"])

\* ------------------------------------------------------ one step, one run
\* the statement at r.pc, executed at time t on the shared state g
Step(g, r, t) ==
    CASE r.pc = "h30" -> Hook30(g, r, t)
      [] r.pc = "h37" -> Hook37(g, r)
      [] r.pc = "h38" -> Hook38(g, r)
      [] r.pc = "h44" -> Hook44(g, r)
      [] r.pc = "h45" -> Hook45(g, r)
      [] r.pc = "h46" -> Hook46(g, r)
      [] r.pc = "h48" -> Hook48(g, r)
      [] r.pc = "h60" -> Hook60(g, r)
      [] r.pc = "sts78" -> Sts78(g, r)
      [] r.pc = "sts85" -> Sts85(g, r)
      [] r.pc = "sts146" -> Sts146(g, r)
      [] r.pc = "sts188" -> Sts188(g, r, t)
      [] r.pc = "s81" -> Set81(g, r)
      [] r.pc = "s93" -> Set93(g, r)
      [] r.pc = "s94" -> Set94(g, r)
      [] r.pc = "s97" -> Set97(g, r)
      [] r.pc = "g135" -> Info135(g, r)
      [] r.pc = "c103" -> Clear103(g, r)
      [] r.pc = "c104" -> Clear104(g, r)
      [] r.pc = "c109k" -> ClearDel(g, r, "AWS_ACCESS_KEY_ID", "c109s")
      [] r.pc = "c109s" -> ClearDel(g, r, "AWS_SECRET_ACCESS_KEY", "c109t")
      [] r.pc = "c109t" -> ClearDel(g, r, "AWS_SESSION_TOKEN", Clear115(g))
      [] r.pc = "c117k" -> ClearRestore(g, r, "AWS_ACCESS_KEY_ID", "c117s")
      [] r.pc = "c117s" -> ClearRestore(g, r, "AWS_SECRET_ACCESS_KEY", "c117t")
      [] r.pc = "c117t" -> ClearRestore(g, r, "AWS_SESSION_TOKEN", "c117p")
      [] r.pc = "c117p" -> ClearRestore(g, r, "AWS_PROFILE", "c125")
      [] r.pc = "c125" -> Clear125(g, r)
      [] r.pc = "p111" -> Switch111(g, r)
      [] r.pc = "e194" -> Switch194(g, r)
      [] r.pc = "s3_29" -> S3c29(g, r)
      [] r.pc = "s3_32" -> S3c32(g, r)
      [] r.pc = "s3_33" -> S3c33(g, r)
      [] r.pc = "s3_34" -> S3c34(g, r)
      [] r.pc = "a70" -> After70(g, r)

\* a request served to its end with no other request in between
RECURSIVE RunFrom(_, _)
RunFrom(x, t) ==
    IF x.r.pc = "done" THEN x ELSE RunFrom(Step(x.g, x.r, t), t)
Run(g, r, t) == RunFrom(St(g, r), t)
\* run the statements from x on until the one at pc stop is next
RECURSIVE RunTo(_, _, _)
RunTo(x, t, stop) ==
    IF x.r.pc = stop THEN x ELSE RunTo(Step(x.g, x.r, t), t, stop)

\* ------------------------------------------------------------ the program
\* ------------------------------------------ ~/.aws/credentials, ~/.aws/config
\* A file is what configparser reads from it: its sections and their options.
\* An option a section does not have is Absent; "" is the empty string.
ProfileNames == {"default", "infrrd-master", "work", "assumed-role"}
CredentialOptions == {"aws_access_key_id", "aws_secret_access_key", "aws_session_token"}
NoSection ==
    [has |-> FALSE, aws_access_key_id |-> Absent, aws_secret_access_key |-> Absent,
     aws_session_token |-> Absent]
Section(ak, sk, tok) ==
    [has |-> TRUE, aws_access_key_id |-> ak, aws_secret_access_key |-> sk,
     aws_session_token |-> tok]
NoCredentialsFile == [exists |-> FALSE, sections |-> [n \in ProfileNames |-> NoSection]]
\* section names of ~/.aws/config: 'default' and 'profile <name>'
ConfigSections == {<<"default">>} \cup {<<"profile", n>> : n \in ProfileNames}
NoConfigSection ==
    [has |-> FALSE, role_arn |-> Absent, region |-> Absent, source_profile |-> Absent]
RoleSection(arn, region, source) ==
    [has |-> TRUE, role_arn |-> arn, region |-> region, source_profile |-> source]
NoConfigFile == [exists |-> FALSE, sections |-> [s \in ConfigSections |-> NoConfigSection]]

\* configparser.ConfigParser(); if path.exists(): config.read(path)
ReadFile(f) == f.sections
\* config.has_section / add_section / set / remove_section
HasSection(cfg, n) == cfg[n].has
AddSection(cfg, n) == [cfg EXCEPT ![n].has = TRUE]
SetOption(cfg, n, opt, v) == [cfg EXCEPT ![n][opt] = v]
RemoveSection(cfg, n, empty) == [cfg EXCEPT ![n] = empty]
\* with open(path, 'w') as f: config.write(f).  open() truncates the file
\* before anything is written; io tells how the write ends.
IoOutcomes == {"ok", "open_fails", "write_fails"}
WriteFile(f, cfg, empty, io) ==
    CASE io = "ok" -> [exists |-> TRUE, sections |-> cfg]
      [] io = "open_fails" -> f
      [] io = "write_fails" -> [exists |-> TRUE, sections |-> [n \in DOMAIN cfg |-> empty]]
\* truth value of a str | None argument
TruthyStr(v) == v # Absent /\ v # ""

\* a slip of line 192: the token is written whatever it is
save_credentials_AnyToken(f, profile_name, access_key, secret_key, session_token, io) ==
    LET c0 == ReadFile(f)
        c1 == IF ~HasSection(c0, profile_name) THEN AddSection(c0, profile_name) ELSE c0
        c2 == SetOption(c1, profile_name, "aws_access_key_id", access_key)
        c3 == SetOption(c2, profile_name, "aws_secret_access_key", secret_key)
        c4 == SetOption(c3, profile_name, "aws_session_token", session_token)
    IN [file |-> WriteFile(f, c4, NoSection, io), ret |-> io = "ok"]
\* AWSCredentialsManager.save_credentials, credentials.py 174-204
save_credentials(f, profile_name, access_key, secret_key, session_token, io) ==
    LET c0 == ReadFile(f)
        c1 == IF ~HasSection(c0, profile_name) THEN AddSection(c0, profile_name) ELSE c0
        c2 == SetOption(c1, profile_name, "aws_access_key_id", access_key)
        c3 == SetOption(c2, profile_name, "aws_secret_access_key", secret_key)
        c4 == IF TruthyStr(session_token)
              THEN SetOption(c3, profile_name, "aws_session_token", session_token)
              ELSE c3
    IN [file |-> WriteFile(f, c4, NoSection, io), ret |-> io = "ok"]

\* AWSCredentialsManager.remove_profile, credentials.py 206-227
remove_profile(f, profile_name, io) ==
    IF ~f.exists
    THEN [file |-> f, ret |-> TRUE]
    ELSE LET c0 == ReadFile(f) IN
         IF HasSection(c0, profile_name)
         THEN [file |-> WriteFile(f, RemoveSection(c0, profile_name, NoSection),
                                  NoSection, io),
               ret |-> io = "ok"]
         ELSE [file |-> f, ret |-> TRUE]

\* a slip of lines 865-872: a profile is removed whether or not it has a token
remove_assume_role_AnyProfile(f, profile_name, io) ==
    IF ~f.exists
    THEN [file |-> f, ret |-> FALSE]
    ELSE LET c0 == ReadFile(f) IN
         IF ~HasSection(c0, profile_name)
         THEN [file |-> f, ret |-> FALSE]
         ELSE [file |-> WriteFile(f, RemoveSection(c0, profile_name, NoSection),
                                  NoSection, io),
               ret |-> io = "ok"]
\* AWSRoleManager.remove_assume_role, assume_role.py 838-893: 849-853 no file,
\* 858-862 no such section, 865-872 'aws_session_token' in section, 875-879
\* remove_section and write, 887-893 any exception gives success False
remove_assume_role(f, profile_name, io) ==
    IF ~f.exists
    THEN [file |-> f, ret |-> FALSE]
    ELSE LET c0 == ReadFile(f) IN
         IF ~HasSection(c0, profile_name)
         THEN [file |-> f, ret |-> FALSE]
         ELSE IF c0[profile_name].aws_session_token = Absent
         THEN [file |-> f, ret |-> FALSE]
         ELSE [file |-> WriteFile(f, RemoveSection(c0, profile_name, NoSection),
                                  NoSection, io),
               ret |-> io = "ok"]
\* AWSRoleManager.clean_expired_credentials, assume_role.py 783-836.
\* How get_caller_identity() ends for the credentials of a section: it returns,
\* or it raises with the message of the provider's error.
CheckAnswers == {"valid", "ExpiredToken", "InvalidClientTokenId"}
\* line 810: 'ExpiredToken' in str(e) or 'expired' in str(e).lower()
IsExpiryError(answer) == answer = "ExpiredToken"
\* line 798: the three options are in the section
LooksTemporary(sec) ==
    /\ sec.has
    /\ sec.aws_session_token # Absent
    /\ sec.aws_access_key_id # Absent
    /\ sec.aws_secret_access_key # Absent
\* a slip of line 798: every section is probed, with or without a token
expired_profiles_AnySection(cfg, answers) ==
    {n \in DOMAIN cfg : cfg[n].has /\ IsExpiryError(answers[n])}
\* lines 795-814: expired_profiles
expired_profiles(cfg, answers) ==
    {n \in DOMAIN cfg : LooksTemporary(cfg[n]) /\ IsExpiryError(answers[n])}
\* lines 786-790 no file; 817-819 remove the sections; 822-823 write the file
\* (also when nothing was removed); 825-829 the result; 831-836 any exception
clean_expired_credentials(f, answers, io) ==
    IF ~f.exists
    THEN [file |-> f, ret |-> FALSE, cleaned_count |-> NoneVal]
    ELSE LET c0 == ReadFile(f)
             expired == expired_profiles(c0, answers)
             c1 == [n \in DOMAIN c0 |-> IF n \in expired THEN NoSection ELSE c0[n]]
         IN IF io = "ok"
            THEN [file |-> WriteFile(f, c1, NoSection, io), ret |-> TRUE,
                  cleaned_count |-> Some(Cardinality(expired))]
            ELSE [file |-> WriteFile(f, c1, NoSection, io), ret |-> FALSE,
                  cleaned_count |-> NoneVal]
\* assume_role.py 765: the section of a profile in ~/.aws/config
SectionName(profile_name) ==
    IF profile_name # "default" THEN <<"profile", profile_name>> ELSE <<"default">>
\* AWSRoleManager.remove_role_profile, assume_role.py 756-781
remove_role_profile(f, profile_name, io) ==
    IF ~f.exists
    THEN [file |-> f, ret |-> FALSE]
    ELSE LET c0 == ReadFile(f)
             section_name == SectionName(profile_name)
         IN IF HasSection(c0, section_name)
            THEN [file |-> WriteFile(f, RemoveSection(c0, section_name, NoConfigSection),
                                     NoConfigSection, io),
                  ret |-> io = "ok"]
            ELSE [file |-> f, ret |-> FALSE]

\* AWSRoleManager._save_assumed_credentials, assume_role.py 295-322
save_assumed_credentials(f, profile_name, access_key, secret_key, session_token, io) ==
    LET c0 == ReadFile(f)
        c1 == IF ~HasSection(c0, profile_name) THEN AddSection(c0, profile_name) ELSE c0
        c2 == SetOption(c1, profile_name, "aws_access_key_id", access_key)
        c3 == SetOption(c2, profile_name, "aws_secret_access_key", secret_key)
        c4 == SetOption(c3, profile_name, "aws_session_token", session_token)
    IN [file |-> WriteFile(f, c4, NoSection, io), ret |-> io = "ok"]
\* AWSCredentialsManager._get_profile_status, credentials.py 119-128
get_profile_status(profile_data) ==
    CASE profile_data.role_arn # Absent /\ profile_data.aws_access_key_id # Absent -> "both"
      [] profile_data.role_arn # Absent /\ profile_data.aws_access_key_id = Absent -> "role"
      [] profile_data.role_arn = Absent /\ profile_data.aws_access_key_id # Absent -> "valid"
      [] OTHER -> "invalid"
NotListed ==
    [listed |-> FALSE, aws_access_key_id |-> Absent, aws_secret_access_key |-> Absent,
     aws_session_token |-> Absent, role_arn |-> Absent, region |-> Absent,
     source_profile |-> Absent, type |-> Absent, status |-> Absent]
\* credentials.py 139-150: one section of the credentials file
ListCredentialsSection(s) ==
    IF ~s.has THEN NotListed
    ELSE LET d == [NotListed EXCEPT !.listed = TRUE,
                                    !.aws_access_key_id = s.aws_access_key_id,
                                    !.aws_secret_access_key = s.aws_secret_access_key,
                                    !.aws_session_token = s.aws_session_token]
             t == [d EXCEPT !.type = IF d.aws_access_key_id # Absent
                                     THEN "credentials" ELSE "unknown"]
         IN [t EXCEPT !.status = get_profile_status(t)]
\* dict.update(): the options the section has replace those of the entry
UpdateWith(d, s) ==
    [d EXCEPT !.role_arn = IF s.role_arn # Absent THEN s.role_arn ELSE @,
              !.region = IF s.region # Absent THEN s.region ELSE @,
              !.source_profile = IF s.source_profile # Absent THEN s.source_profile ELSE @]
\* credentials.py 157-170: the section 'profile <name>' of the config file
ListConfigSection(d, s) ==
    IF ~s.has THEN d
    ELSE IF ~d.listed
    THEN LET n == [UpdateWith(NotListed, s) EXCEPT !.listed = TRUE, !.type = "role"]
         IN [n EXCEPT !.status = get_profile_status(n)]
    ELSE LET u == UpdateWith(d, s) IN
         IF s.role_arn # Absent
         THEN [u EXCEPT !.type = "both", !.status = get_profile_status([u EXCEPT !.type = "both"])]
         ELSE u
\* AWSCredentialsManager.list_profiles, credentials.py 130-172
list_profiles(cf, cfg) ==
    [n \in ProfileNames |->
        LET d == IF cf.exists THEN ListCredentialsSection(ReadFile(cf)[n]) ELSE NotListed
        IN IF cfg.exists THEN ListConfigSection(d, ReadFile(cfg)[<<"profile", n>>]) ELSE d]

\* ------------------------------------------------------ EnvironmentManager
\* The registry of environments is the dict config['environments']: a sequence
\* of entries with distinct names, in the order of insertion.
NoEnvironments == <<>>
Environment(name, role_arn, region) == [name |-> name, role_arn |-> role_arn, region |-> region]
EnvironmentNames(envs) == {envs[k].name : k \in 1..Len(envs)}
\* environments[env_name]
EnvironmentOf(envs, env_name) ==
    envs[CHOOSE k \in 1..Len(envs) : envs[k].name = env_name]
\* environments.py 50-56: every section 'profile <name>' but 'profile default' is removed
RemoveOtherProfiles(cfg) ==
    [s \in DOMAIN cfg |->
        IF s[1] = "profile" /\ s # <<"profile", "default">> THEN NoConfigSection ELSE cfg[s]]
\* a slip of lines 44-45: the region of the binding is not rewritten
SetBinding_NoRegion(cfg, env_config) ==
    LET c1 == SetOption(cfg, <<"profile", "default">>, "role_arn", env_config.role_arn)
    IN SetOption(c1, <<"profile", "default">>, "source_profile", "infrrd-master")
\* environments.py 44-46: the three options of [profile default]
SetBinding(cfg, env_config) ==
    LET c1 == SetOption(cfg, <<"profile", "default">>, "role_arn", env_config.role_arn)
        c2 == SetOption(c1, <<"profile", "default">>, "region", env_config.region)
    IN SetOption(c2, <<"profile", "default">>, "source_profile", "infrrd-master")
\* a slip of lines 24-27: an unknown name is not turned away
switch_environment_Unchecked(f, envs, env_name, io) ==
    LET c0 == ReadFile(f)
        c1 == IF ~HasSection(c0, <<"profile", "default">>)
              THEN AddSection(c0, <<"profile", "default">>) ELSE c0
    IN [file |-> WriteFile(f, RemoveOtherProfiles(c1), NoConfigSection, io), ret |-> io = "ok"]
\* EnvironmentManager.switch_environment, environments.py 20-72
switch_environment(f, envs, env_name, io) ==
    IF env_name \notin EnvironmentNames(envs)
    THEN [file |-> f, ret |-> FALSE]
    ELSE LET env_config == EnvironmentOf(envs, env_name)
             c0 == ReadFile(f)
             c1 == IF ~HasSection(c0, <<"profile", "default">>)
                   THEN AddSection(c0, <<"profile", "default">>) ELSE c0
             c2 == SetBinding(c1, env_config)
             c3 == RemoveOtherProfiles(c2)
         IN [file |-> WriteFile(f, c3, NoConfigSection, io), ret |-> io = "ok"]
\* default_config.get(option, '')
GetOr(v, default) == IF v = Absent THEN default ELSE v
\* a slip of lines 110-111: the region is not compared
RECURSIVE FirstMatch_ArnOnly(_, _, _)
FirstMatch_ArnOnly(envs, role_arn, region) ==
    IF envs = <<>> THEN Absent
    ELSE IF Head(envs).role_arn = role_arn THEN Head(envs).name
    ELSE FirstMatch_ArnOnly(Tail(envs), role_arn, region)
get_current_environment_ArnOnly(f, envs) ==
    IF ~f.exists THEN Absent
    ELSE IF ~HasSection(ReadFile(f), <<"profile", "default">>) THEN Absent
    ELSE LET default_config == ReadFile(f)[<<"profile", "default">>]
         IN FirstMatch_ArnOnly(envs, GetOr(default_config.role_arn, ""),
                               GetOr(default_config.region, ""))
\* lines 108-112: the first environment, in dict order, with this role_arn and region
RECURSIVE FirstMatch(_, _, _)
FirstMatch(envs, role_arn, region) ==
    IF envs = <<>> THEN Absent
    ELSE IF Head(envs).role_arn = role_arn /\ Head(envs).region = region
    THEN Head(envs).name
    ELSE FirstMatch(Tail(envs), role_arn, region)
\* EnvironmentManager.get_current_environment, environments.py 90-117; Absent is None
get_current_environment(f, envs) ==
    IF ~f.exists THEN Absent
    ELSE IF ~HasSection(ReadFile(f), <<"profile", "default">>) THEN Absent
    ELSE LET default_config == ReadFile(f)[<<"profile", "default">>]
         IN FirstMatch(envs, GetOr(default_config.role_arn, ""),
                       GetOr(default_config.region, ""))
\* environments[env_name] = {...}: an entry of that name is replaced where it
\* is, a new one is added at the end
RECURSIVE SetEntry(_, _)
SetEntry(envs, e) ==
    IF envs = <<>> THEN <<e>>
    ELSE IF Head(envs).name = e.name THEN <<e>> \o Tail(envs)
    ELSE <<Head(envs)>> \o SetEntry(Tail(envs), e)
\* del environments[env_name]
RECURSIVE DelEntry(_, _)
DelEntry(envs, env_name) ==
    IF envs = <<>> THEN <<>>
    ELSE IF Head(envs).name = env_name THEN Tail(envs)
    ELSE <<Head(envs)>> \o DelEntry(Tail(envs), env_name)
\* EnvironmentManager.add_environment, environments.py 119-134: the dict in
\* memory is changed whether or not config.json can be written
add_environment(envs, env_name, region, role_arn, io) ==
    [envs |-> SetEntry(envs, Environment(env_name, role_arn, region)), ret |-> io = "ok"]
\* EnvironmentManager.remove_environment, environments.py 159-174
remove_environment(envs, env_name, io) ==
    IF env_name \in EnvironmentNames(envs)
    THEN [envs |-> DelEntry(envs, env_name), ret |-> io = "ok"]
    ELSE [envs |-> envs, ret |-> TRUE]
\* AWSRoleManager.save_role_profile, assume_role.py 324-378
save_role_profile(f, profile_name, role_arn, source_profile, region, io) ==
    LET c0 == ReadFile(f)
        section_name == SectionName(profile_name)
        c1 == IF ~HasSection(c0, section_name) THEN AddSection(c0, section_name) ELSE c0
        c2 == SetOption(c1, section_name, "role_arn", role_arn)
        c3 == SetOption(c2, section_name, "source_profile", source_profile)
        c4 == SetOption(c3, section_name, "region", region)
    IN [file |-> WriteFile(f, c4, NoConfigSection, io), ret |-> io = "ok"]
\* AWSRoleManager.list_role_profiles, assume_role.py 729-754.  The sections
\* 'profile default' and 'default' both give the entry 'default'; the one that
\* comes last in the file is the one kept.
SectionOrders == {"default_last", "profile_default_last"}
RoleEntry(s) == IF s.has /\ s.role_arn # Absent THEN s ELSE NoConfigSection
list_role_profiles(cfg, order) ==
    IF ~cfg.exists THEN [n \in ProfileNames |-> NoConfigSection]
    ELSE [n \in ProfileNames |->
            LET p == RoleEntry(ReadFile(cfg)[<<"profile", n>>])
                d == RoleEntry(ReadFile(cfg)[<<"default">>])
            IN IF n # "default" THEN p
               ELSE IF ~d.has THEN p
               ELSE IF ~p.has THEN d
               ELSE IF order = "default_last" THEN d ELSE p]
NoRoleListing == [n \in ProfileNames |-> NoConfigSection]
\* the record of a manager call: its arguments, and what it returned
NoListing == [n \in ProfileNames |-> NotListed]
NoCall ==
    [op |-> "none", profile_name |-> Absent, access_key |-> Absent, secret_key |-> Absent,
     session_token |-> Absent, io |-> "ok", ret |-> FALSE, listing |-> NoListing,
     role_listing |-> NoRoleListing, env_name |-> Absent, current_environment |-> Absent,
     environments_before |-> NoEnvironments,
     keys_in_ambient |-> FALSE, session_active |-> FALSE,
     answers |-> [n \in ProfileNames |-> "valid"], cleaned_count |-> NoneVal,
     before |-> NoCredentialsFile, config_before |-> NoConfigFile]
\* the session specifications leave the files alone
FilesAtRest ==
    /\ credentials_file = NoCredentialsFile
    /\ environments = NoEnvironments
    /\ config_file = NoConfigFile
    /\ call = NoCall
Slots == {"r1", "r2"}
\* the environment the process is started in: with or without base keys, with
\* or without a profile name
InitEnvs ==
    {MkEnv(k, k, Absent, p) : k \in {Absent, BaseId}, p \in Profiles \cup {Absent}}

\* create_app(): SessionManager.__init__, lines 14-20
Init ==
    /\ env \in InitEnvs
    /\ session = [c \in Clients |-> EmptySession]
    /\ original_credentials = NoneVal
    /\ app_original_aws_profile = NoneVal
    /\ now = 0
    /\ reqs = [i \in Slots |-> IdleReq]
    /\ started = 0
    /\ FilesAtRest

Publish(g) ==
    /\ env' = g.env
    /\ session' = g.session
    /\ original_credentials' = g.orig
    /\ app_original_aws_profile' = g.appProf

\* what is kept of a request once it is served: who asked what, which branch
\* the hook took, and what the handler returned
Served(r) ==
    [IdleReq EXCEPT !.c = r.c, !.kind = r.kind, !.pc = "done",
                    !.expired = r.expired, !.live = r.live,
                    !.info = r.info, !.client = r.client,
                    !.is_expired = r.is_expired]

\* One request served from its before_request hook to its after_request hook;
\* the record of the request stays in slot r1 until the next one or a tick.
Serve(r) ==
    /\ \A i \in Slots : reqs[i].pc \in {"idle", "done"}
    /\ \E x \in {Run(Cur, r, now)} :
          /\ Publish(x.g)
          /\ reqs' = [reqs EXCEPT !["r1"] = Served(x.r)]
    /\ UNCHANGED <<now, started>>
    /\ UNCHANGED files

\* POST /api/assume_role
ApiAssumeRole(c, id, dur, outcome) == Serve(NewReq(c, "assume", Absent, id, dur, outcome))
\* POST /api/remove_assume_role
ApiRemoveAssumeRole(c) == Serve(NewReq(c, "remove", Absent, "A", 0, "ok"))
\* GET /api/status
ApiStatus(c) == Serve(NewReq(c, "status", Absent, "A", 0, "ok"))
\* POST /api/switch_profile
ApiSwitchProfile(c, p) == Serve(NewReq(c, "switch_profile", p, "A", 0, "ok"))
\* GET /api/list_s3_buckets
ApiListS3Buckets(c) == Serve(NewReq(c, "s3", Absent, "A", 0, "ok"))

\* a minute passes between two requests
Tick ==
    /\ now < MaxNow
    /\ \A i \in Slots : reqs[i].pc \in {"idle", "done"}
    /\ now' = now + 1
    /\ reqs' = [i \in Slots |-> IdleReq]
    /\ UNCHANGED <<env, session, original_credentials, app_original_aws_profile,
                   started>>
    /\ UNCHANGED files

Next ==
    \/ \E c \in Clients, id \in AssumedIds, dur \in Durations, o \in Outcomes :
          ApiAssumeRole(c, id, dur, o)
    \/ \E c \in Clients : ApiRemoveAssumeRole(c)
    \/ \E c \in Clients : ApiStatus(c)
    \/ \E c \in Clients, p \in Profiles : ApiSwitchProfile(c, p)
    \/ \E c \in Clients : ApiListS3Buckets(c)
    \/ Tick

Spec == Init /\ [][Next]_vars

\* ------------------------------------------------- the threaded server
\* app.run() serves every request on a thread of its own (flask_app.py 1082):
\* two requests in flight execute their statements in any order.
\* the requests the threads serve: one client works with an assumed role,
\* the other only reads
ThreadedRequests ==
    {NewReq("c1", "assume", Absent, "A", Grace + 1, "ok"),
     NewReq("c1", "switch_profile", "work", "A", 0, "ok")}
    \cup {NewReq("c1", k, Absent, "A", 0, "ok") : k \in {"remove", "status", "s3"}}
    \cup {NewReq("c2", k, Absent, "A", 0, "ok") : k \in {"status", "s3"}}

\* the server is started with base keys and a profile, or with neither
InitThreaded ==
    /\ Init
    /\ env \in {MkEnv(Absent, Absent, Absent, Absent), MkEnv(BaseId, BaseId, Absent, "work")}

\* a request arrives and gets a thread (the first free slot)
Begin(i, r) ==
    /\ started < MaxStarted
    /\ reqs[i].pc = "idle"
    /\ i = "r2" => reqs["r1"].pc # "idle"
    /\ reqs' = [reqs EXCEPT ![i] = r]
    /\ started' = started + 1
    /\ UNCHANGED <<env, session, original_credentials, app_original_aws_profile, now>>
    /\ UNCHANGED files

\* the thread of slot i executes its next statement; after the last one the
\* response is sent and the thread ends
Exec(i) ==
    /\ reqs[i].pc # "idle"
    /\ \E x \in {Step(Cur, reqs[i], now)} :
          /\ Publish(x.g)
          /\ reqs' = [reqs EXCEPT ![i] = IF x.r.pc = "done" THEN IdleReq ELSE x.r]
    /\ UNCHANGED <<now, started>>
    /\ UNCHANGED files

\* a minute passes, whatever the threads are doing
TickThreaded ==
    /\ now < MaxNow
    /\ now' = now + 1
    /\ UNCHANGED <<env, session, original_credentials, app_original_aws_profile,
                   reqs, started>>
    /\ UNCHANGED files

NextThreaded ==
    \/ \E i \in Slots, r \in ThreadedRequests : Begin(i, r)
    \/ \E i \in Slots : Exec(i)
    \/ TickThreaded

SpecThreaded == InitThreaded /\ [][NextThreaded]_vars

\* ------------------------------------------- the expiry predicate, by itself
\* Every (now, Expiration) pair a session cookie can present to the manager:
\* the hook and is_session_expired() are applied to it.
Expirations == 0..(MaxNow + MaxDuration)
SessionsOf(id, exp) ==
    [assumed_credentials |-> Some(Creds(id, exp)), assumed_role |-> Some(RoleOf(id))]
InitExpiry ==
    /\ env \in InitEnvs
    /\ session \in [Clients -> {EmptySession} \cup
                        {SessionsOf("A", e) : e \in Expirations}]
    /\ original_credentials = NoneVal
    /\ app_original_aws_profile = NoneVal
    /\ now \in 0..MaxNow
    /\ reqs = [i \in Slots |-> IdleReq]
    /\ started = 0
    /\ FilesAtRest

\* a handler asks SessionManager.is_session_expired() (lines 151-160)
CallIsSessionExpired(c) ==
    /\ reqs' = [reqs EXCEPT !["r1"] =
                  [IdleReq EXCEPT !.c = c, !.kind = "is_session_expired", !.pc = "done",
                                  !.creds = session[c].assumed_credentials,
                                  !.is_expired = is_session_expired(session[c], now)]]
    /\ UNCHANGED <<env, session, original_credentials, app_original_aws_profile,
                   now, started>>
    /\ UNCHANGED files

NextExpiry ==
    \/ \E c \in Clients : ApiStatus(c)
    \/ \E c \in Clients : CallIsSessionExpired(c)

SpecExpiry == InitExpiry /\ [][NextExpiry]_vars

\* ------------------------------------------------- a restarted process
\* The Flask session is a cookie signed with the constant app.secret_key
\* (flask_app.py 57): it outlives the process. create_app() then starts with
\* _original_credentials = None (session_manager.py 17) while the cookie of a
\* browser may still carry the credential set of role A.
RestartSessions == {EmptySession, SessionsOf("A", MaxDuration)}
InitRestart ==
    /\ env \in InitEnvs
    /\ session \in [Clients -> RestartSessions]
    /\ original_credentials = NoneVal
    /\ app_original_aws_profile = NoneVal
    /\ now = 0
    /\ reqs = [i \in Slots |-> IdleReq]
    /\ started = 0
    /\ FilesAtRest

NextRestart ==
    \/ \E c \in Clients, dur \in Durations : ApiAssumeRole(c, "B", dur, "ok")
    \/ \E c \in Clients : ApiRemoveAssumeRole(c)
    \/ \E c \in Clients : ApiStatus(c)
    \/ Tick

SpecRestart == InitRestart /\ [][NextRestart]_vars
\* ------------------------------------------------- the credential store
\* The managers of the two AWS files, called one after the other (CLI and
\* /api/update_credentials); the web session plays no part.
StoreNames == {"default", "work"}
KeyPairs == {<<"AK1", "SK1">>, <<"AK2", "SK2">>}
SessionTokens == {Absent, "", "T1"}
InitCredentialsFiles ==
    {NoCredentialsFile}
    \cup {[exists |-> TRUE,
           sections |-> [n \in ProfileNames |->
                           IF n = "default" THEN d ELSE IF n = "work" THEN w ELSE NoSection]] :
            d \in {NoSection, Section("AK1", "SK1", Absent)},
            w \in {NoSection, Section("AK1", "SK1", "T1")}}
InitConfigFiles ==
    {NoConfigFile}
    \cup {[exists |-> TRUE,
           sections |-> [s \in ConfigSections |->
                           IF s \in on THEN RoleSection("arn-x", "us-east-1", "default")
                           ELSE NoConfigSection]] :
            on \in SUBSET {<<"default">>, <<"profile", "work">>}}
SessionAtRest ==
    /\ env = AllAbsent
    /\ session = [c \in Clients |-> EmptySession]
    /\ original_credentials = NoneVal
    /\ app_original_aws_profile = NoneVal
    /\ now = 0
    /\ reqs = [i \in Slots |-> IdleReq]
    /\ started = 0
session_vars ==
    <<env, session, original_credentials, app_original_aws_profile, now, reqs, started>>
store_frame == <<session_vars, environments>>
InitStore ==
    /\ SessionAtRest
    /\ environments = NoEnvironments
    /\ credentials_file \in InitCredentialsFiles
    /\ config_file \in InitConfigFiles
    /\ call = NoCall
StoreCall(op, profile_name) ==
    [NoCall EXCEPT !.op = op, !.profile_name = profile_name,
                   !.before = credentials_file, !.config_before = config_file,
                   !.environments_before = environments]

\* save_credentials(profile_name, access_key, secret_key, session_token)
SaveCredentials(n, kp, tok, io) ==
    /\ \E r \in {save_credentials(credentials_file, n, kp[1], kp[2], tok, io)} :
          /\ credentials_file' = r.file
          /\ call' = [StoreCall("save_credentials", n) EXCEPT
                         !.access_key = kp[1], !.secret_key = kp[2],
                         !.session_token = tok, !.io = io, !.ret = r.ret]
    /\ UNCHANGED config_file
    /\ UNCHANGED store_frame
\* remove_profile(profile_name)
RemoveProfile(n, io) ==
    /\ \E r \in {remove_profile(credentials_file, n, io)} :
          /\ credentials_file' = r.file
          /\ call' = [StoreCall("remove_profile", n) EXCEPT !.io = io, !.ret = r.ret]
    /\ UNCHANGED config_file
    /\ UNCHANGED store_frame
\* remove_role_profile(profile_name)
RemoveRoleProfile(n, io) ==
    /\ \E r \in {remove_role_profile(config_file, n, io)} :
          /\ config_file' = r.file
          /\ call' = [StoreCall("remove_role_profile", n) EXCEPT !.io = io, !.ret = r.ret]
    /\ UNCHANGED credentials_file
    /\ UNCHANGED store_frame
\* remove_assume_role(profile_name)
RemoveAssumeRole(n, io) ==
    /\ \E r \in {remove_assume_role(credentials_file, n, io)} :
          /\ credentials_file' = r.file
          /\ call' = [StoreCall("remove_assume_role", n) EXCEPT !.io = io, !.ret = r.ret]
    /\ UNCHANGED config_file
    /\ UNCHANGED store_frame
\* clean_expired_credentials(); answers: how each identity check will end
CleanExpiredCredentials(answers, io) ==
    /\ \E r \in {clean_expired_credentials(credentials_file, answers, io)} :
          /\ credentials_file' = r.file
          /\ call' = [StoreCall("clean_expired_credentials", Absent) EXCEPT
                         !.io = io, !.ret = r.ret, !.answers = answers,
                         !.cleaned_count = r.cleaned_count]
    /\ UNCHANGED config_file
    /\ UNCHANGED store_frame
\* list_profiles()
ListProfiles ==
    /\ call' = [StoreCall("list_profiles", Absent) EXCEPT
                   !.ret = TRUE, !.listing = list_profiles(credentials_file, config_file)]
    /\ UNCHANGED <<credentials_file, config_file>>
    /\ UNCHANGED store_frame

\* list_role_profiles()
ListRoleProfiles(order) ==
    /\ call' = [StoreCall("list_role_profiles", Absent) EXCEPT
                   !.ret = TRUE, !.role_listing = list_role_profiles(config_file, order)]
    /\ UNCHANGED <<credentials_file, config_file>>
    /\ UNCHANGED store_frame

\* the identity checks of one clean_expired_credentials call: any outcome for
\* the profiles the store can hold, valid for the others
CheckAnswerSets ==
    {[n \in ProfileNames |-> IF n \in StoreNames THEN a[n] ELSE "valid"] :
        a \in [StoreNames -> CheckAnswers]}
\* profile_name of remove_assume_role: two of the store, and its default
RemoveNames == StoreNames \cup {"assumed-role"}
NextStore ==
    \/ \E n \in StoreNames, kp \in KeyPairs, tok \in SessionTokens, io \in IoOutcomes :
          SaveCredentials(n, kp, tok, io)
    \/ \E n \in StoreNames, io \in IoOutcomes : RemoveProfile(n, io)
    \/ \E n \in StoreNames, io \in IoOutcomes : RemoveRoleProfile(n, io)
    \/ \E n \in RemoveNames, io \in IoOutcomes : RemoveAssumeRole(n, io)
    \/ \E answers \in CheckAnswerSets, io \in IoOutcomes :
          CleanExpiredCredentials(answers, io)
    \/ ListProfiles
    \/ \E order \in SectionOrders : ListRoleProfiles(order)

SpecStore == InitStore /\ [][NextStore]_vars
\* ------------------------------------------- the environment manager's calls
\* The calls of EnvironmentManager and the two role-profile calls that write
\* ~/.aws/config, one after another, from a registry and a config file.
EnvNames == {"dev", "prod"}
SwitchNames == EnvNames \cup {"missing"}
\* (role_arn, region) of an environment: two distinct ones, and one that
\* shares its role with the first
EnvConfigs == {<<"arn-d", "us-west-2">>, <<"arn-p", "us-east-1">>, <<"arn-d", "us-east-1">>}
InitEnvironments ==
    {NoEnvironments,
     <<Environment("dev", "arn-d", "us-west-2"), Environment("prod", "arn-p", "us-east-1")>>,
     <<Environment("dev", "arn-d", "us-west-2"), Environment("prod", "arn-d", "us-west-2")>>}
InitEnvironmentsSpec ==
    /\ SessionAtRest
    /\ credentials_file = NoCredentialsFile
    /\ config_file \in InitConfigFiles
    /\ environments \in InitEnvironments
    /\ call = NoCall
env_frame == <<session_vars, credentials_file>>
\* switch_environment(env_name)
SwitchEnvironment(env_name, io) ==
    /\ \E r \in {switch_environment(config_file, environments, env_name, io)} :
          /\ config_file' = r.file
          /\ call' = [StoreCall("switch_environment", Absent) EXCEPT
                         !.env_name = env_name, !.io = io, !.ret = r.ret]
    /\ UNCHANGED environments
    /\ UNCHANGED env_frame
\* get_current_environment()
GetCurrentEnvironment ==
    /\ call' = [StoreCall("get_current_environment", Absent) EXCEPT
                   !.ret = TRUE,
                   !.current_environment = get_current_environment(config_file, environments)]
    /\ UNCHANGED <<config_file, environments>>
    /\ UNCHANGED env_frame
\* add_environment(env_name, region, role_arn)
AddEnvironment(env_name, ec, io) ==
    /\ \E r \in {add_environment(environments, env_name, ec[2], ec[1], io)} :
          /\ environments' = r.envs
          /\ call' = [StoreCall("add_environment", Absent) EXCEPT
                         !.env_name = env_name, !.io = io, !.ret = r.ret]
    /\ UNCHANGED config_file
    /\ UNCHANGED env_frame
\* remove_environment(env_name)
RemoveEnvironment(env_name, io) ==
    /\ \E r \in {remove_environment(environments, env_name, io)} :
          /\ environments' = r.envs
          /\ call' = [StoreCall("remove_environment", Absent) EXCEPT
                         !.env_name = env_name, !.io = io, !.ret = r.ret]
    /\ UNCHANGED config_file
    /\ UNCHANGED env_frame
\* save_role_profile(profile_name, role_arn, source_profile)
SaveRoleProfile(n, io) ==
    /\ \E r \in {save_role_profile(config_file, n, "arn-x", "default", "us-east-1", io)} :
          /\ config_file' = r.file
          /\ call' = [StoreCall("save_role_profile", n) EXCEPT !.io = io, !.ret = r.ret]
    /\ UNCHANGED environments
    /\ UNCHANGED env_frame
\* remove_role_profile(profile_name)
RemoveRoleProfileEnv(n, io) ==
    /\ \E r \in {remove_role_profile(config_file, n, io)} :
          /\ config_file' = r.file
          /\ call' = [StoreCall("remove_role_profile", n) EXCEPT !.io = io, !.ret = r.ret]
    /\ UNCHANGED environments
    /\ UNCHANGED env_frame
NextEnvironments ==
    \/ \E env_name \in SwitchNames, io \in IoOutcomes : SwitchEnvironment(env_name, io)
    \/ GetCurrentEnvironment
    \/ \E env_name \in EnvNames, ec \in EnvConfigs, io \in {"ok", "open_fails"} :
          AddEnvironment(env_name, ec, io)
    \/ \E env_name \in EnvNames, io \in {"ok", "open_fails"} : RemoveEnvironment(env_name, io)
    \/ \E n \in StoreNames, io \in IoOutcomes : SaveRoleProfile(n, io)
    \/ \E n \in StoreNames, io \in IoOutcomes : RemoveRoleProfileEnv(n, io)

SpecEnvironments == InitEnvironmentsSpec /\ [][NextEnvironments]_vars
\* os.environ holds a key of an assumed role
AssumedKeysIn(e) ==
    \/ e.AWS_ACCESS_KEY_ID \in AssumedIds
    \/ e.AWS_SECRET_ACCESS_KEY \in AssumedIds
    \/ e.AWS_SESSION_TOKEN \in AssumedIds
\* --------------------------------------------- the web API with its stores
\* Requests of the web API served one after another, with the config file and
\* the registry of environments behind /api/switch_environment.
ApiEnvironments ==
    <<Environment("dev", "arn-d", "us-west-2"), Environment("prod", "arn-p", "us-east-1")>>
ApiConfigFiles ==
    {[exists |-> TRUE,
      sections |-> [s \in ConfigSections |->
                      IF s = <<"profile", "work">>
                      THEN RoleSection("arn-x", "us-east-1", "default")
                      ELSE NoConfigSection]]}
\* the process is started with a profile name and no keys
ApiEnvs == {MkEnv(Absent, Absent, Absent, "work")}
\* the names asked for: one of the registry, one that is not in it
ApiSwitchNames == {"dev", "missing"}
InitApi ==
    /\ env \in ApiEnvs
    /\ session = [c \in Clients |-> EmptySession]
    /\ original_credentials = NoneVal
    /\ app_original_aws_profile = NoneVal
    /\ now = 0
    /\ reqs = [i \in Slots |-> IdleReq]
    /\ started = 0
    /\ credentials_file = NoCredentialsFile
    /\ config_file \in ApiConfigFiles
    /\ environments = ApiEnvironments
    /\ call = NoCall
\* POST /api/switch_environment, flask_app.py 183-216: the hook, the clearing of
\* the session's assumed role, switch_environment(env_name), the after hook.
\* The call record keeps whether os.environ held the keys of an assumed role,
\* and the session of the client a credential set, when switch_environment
\* was called.
ApiSwitchEnvironment(c, env_name, io) ==
    /\ \A i \in Slots : reqs[i].pc \in {"idle", "done"}
    /\ \E x \in {RunTo(St(Cur, NewReq(c, "switch_environment", Absent, "A", 0, "ok")),
                       now, "e198")} :
          \E w \in {switch_environment(config_file, environments, env_name, io)} :
             \E y \in {RunFrom(St(x.g, [x.r EXCEPT !.pc = "a70"]), now)} :
                /\ Publish(y.g)
                /\ reqs' = [reqs EXCEPT !["r1"] = Served(y.r)]
                /\ config_file' = w.file
                /\ call' = [NoCall EXCEPT
                               !.op = "switch_environment",
                               !.env_name = env_name, !.io = io, !.ret = w.ret,
                               !.keys_in_ambient = AssumedKeysIn(x.g.env),
                               !.session_active =
                                   IsSet(x.g.session[c].assumed_credentials)]
    /\ UNCHANGED <<now, started, credentials_file, environments>>
NextApi ==
    \/ \E c \in Clients, dur \in Durations, o \in Outcomes : ApiAssumeRole(c, "A", dur, o)
    \/ \E c \in Clients : ApiStatus(c)
    \/ \E c \in Clients, env_name \in ApiSwitchNames, io \in IoOutcomes :
          ApiSwitchEnvironment(c, env_name, io)
    \/ Tick

SpecApi == InitApi /\ [][NextApi]_vars
\* ------------------------------------------------- AWSRoleManager.assume_role
\* One call of assume_role at a time (CLI, AWSProfileManager.assume_role),
\* executed statement by statement; the collaborators (the identity check, the
\* trust exchange, the file system) answer when they are asked.
BaseProfiles == {"default", "infrrd-master", "work"}
SourceProfiles == {Absent, "work"}
SaveNames == {Absent, "work"}
\* assume_role.py 114: expected_accounts (two of the six), and one other account
ExpectedAccounts == {"379233983907", "465825429380"}
Accounts == {"379233983907", "111111111111"}
\* what boto3 answers for a profile: no such profile, credentials that do not
\* work, or the account of its identity
IdentityAnswers == {"missing", "invalid"} \cup Accounts
StsAnswers == {"ok", "denied", "transient"}
NoAnswer == "-"
NoResult == [success |-> FALSE, profile_name |-> Absent, credentials |-> NoneVal]
NewRoleCall(source_profile, profile_name, save_to_profile, preferred, id, dur) ==
    [op |-> "assume_role", pc |-> "ar172",
     source_profile |-> source_profile,    \* argument source_profile
     profile_name |-> profile_name,        \* argument profile_name
     save_to_profile |-> save_to_profile,  \* argument save_to_profile
     preferred |-> preferred,              \* config.get('base_profile', 'default')
     id |-> id, dur |-> dur,               \* the credential set the provider will issue
     old_env |-> AllAbsent,                \* _create_sts_client: old_env
     profiles_to_try |-> <<>>,             \* line 96
     i |-> 1,                              \* position of the loop of line 104
     profile_to_use |-> Absent,            \* lines 87, 102, 116, 127
     sts_client |-> NoneVal,               \* the identity the client signs with
     credentials |-> NoneVal,              \* response['Credentials']
     result |-> NoResult,                  \* the returned dictionary
     probed |-> <<>>,                      \* identity checks made: <<profile, answer>>
     rpcs |-> 0,                           \* trust exchanges issued
     signed_by |-> NoneVal,                \* identity that signed the trust exchange
     sts_answer |-> NoAnswer,              \* how the trust exchange ended
     save_answer |-> NoAnswer,             \* how the write of line 200 ended
     entry_env |-> env,                    \* os.environ when the call was made
     entry_file |-> credentials_file,      \* the credentials file when it was made
     returned_at |-> 0]
IdleRoleCall ==
    [NewRoleCall(Absent, Absent, FALSE, "default", "A", 0) EXCEPT
        !.op = "none", !.pc = "returned", !.entry_env = AllAbsent,
        !.entry_file = NoCredentialsFile]
\* frame, os.environ and credentials file after a statement
Rs(f, e, cf) == [f |-> f, env |-> e, file |-> cf]

\* a slip of lines 96-100: 'default' is tried before the configured profile
ProfilesToTry_DefaultFirst(preferred_profile) ==
    <<"default">>
    \o (IF preferred_profile # "default" THEN <<preferred_profile>> ELSE <<>>)
    \o (IF preferred_profile # "infrrd-master" THEN <<"infrrd-master">> ELSE <<>>)
\* lines 96-100: profiles_to_try
ProfilesToTry(preferred_profile) ==
    <<preferred_profile>>
    \o (IF preferred_profile # "default" THEN <<"default">> ELSE <<>>)
    \o (IF preferred_profile # "infrrd-master" THEN <<"infrrd-master">> ELSE <<>>)
\* boto3: the identity a client signs with. A session made for a named profile
\* uses that profile; one made without a name reads the environment.
ClientIdentity(profile_arg, e) ==
    IF profile_arg # Absent THEN <<"profile", profile_arg>>
    ELSE IF InEnv(e, "AWS_ACCESS_KEY_ID") /\ InEnv(e, "AWS_SECRET_ACCESS_KEY")
    THEN <<"env", e.AWS_ACCESS_KEY_ID>>
    ELSE IF InEnv(e, "AWS_PROFILE") THEN <<"profile", e.AWS_PROFILE>>
    ELSE <<"profile", "default">>
\* the answer already given for a profile in this call, or NoAnswer
RECURSIVE AnswerFor(_, _)
AnswerFor(probed, profile) ==
    IF probed = <<>> THEN NoAnswer
    ELSE IF probed[Len(probed)][1] = profile THEN probed[Len(probed)][2]
    ELSE AnswerFor(SubSeq(probed, 1, Len(probed) - 1), profile)
\* assume_role.py 172: sts_client = self._create_sts_client(source_profile)
RoleAr172(f, e, cf) == Rs([f EXCEPT !.pc = "sts77"], e, cf)
\* lines 77-82: the four variables are saved and deleted
RoleSts77(f, e, cf) == Rs([f EXCEPT !.old_env = e, !.pc = "sts86"], AllAbsent, cf)
\* lines 86-102: the given profile, or the list of candidates
RoleSts86(f, e, cf) ==
    IF TruthyStr(f.source_profile)
    THEN Rs([f EXCEPT !.profile_to_use = f.source_profile, !.pc = "sts131"], e, cf)
    ELSE Rs([f EXCEPT !.profiles_to_try = ProfilesToTry(f.preferred), !.i = 1,
                      !.pc = "sts104"], e, cf)
\* lines 104-123: the identity check of one candidate
RoleSts104(f, e, cf, ans) ==
    LET profile == f.profiles_to_try[f.i]
        f1 == [f EXCEPT !.probed = Append(@, <<profile, ans>>)]
    IN IF ans \in Accounts /\ ans \in ExpectedAccounts
       THEN Rs([f1 EXCEPT !.profile_to_use = profile, !.pc = "sts131"], e, cf)
       ELSE IF f.i < Len(f.profiles_to_try)
       THEN Rs([f1 EXCEPT !.i = f.i + 1], e, cf)
       ELSE Rs([f1 EXCEPT !.pc = "sts125"], e, cf)
\* lines 125-128: no candidate qualified
RoleSts125(f, e, cf) == Rs([f EXCEPT !.profile_to_use = "default", !.pc = "sts131"], e, cf)
\* a slip of line 131: the client is made without naming the profile
RoleSts131_Ambient(f, e, cf, ans) ==
    IF ans = "missing"
    THEN Rs([f EXCEPT !.sts_client = NoneVal, !.pc = "sts146"], e, cf)
    ELSE Rs([f EXCEPT !.sts_client = Some([identity |-> ClientIdentity(Absent, e),
                                           answer |-> ans]),
                      !.pc = "sts146"], e, cf)
\* lines 131-144: the client of the chosen profile (None if it cannot be made;
\* a failed identity check of line 135 is only logged)
RoleSts131(f, e, cf, ans) ==
    IF ans = "missing"
    THEN Rs([f EXCEPT !.sts_client = NoneVal, !.pc = "sts146"], e, cf)
    ELSE Rs([f EXCEPT !.sts_client = Some([identity |-> ClientIdentity(f.profile_to_use, e),
                                           answer |-> ans]),
                      !.pc = "sts146"], e, cf)
\* lines 145-148: finally
RoleSts146(f, e, cf) == Rs([f EXCEPT !.pc = "ar173"], RestoreOldEnv(e, f.old_env), cf)
\* lines 173-177
RoleAr173(f, e, cf, t) ==
    IF ~IsSet(f.sts_client)
    THEN Rs([f EXCEPT !.result = NoResult, !.returned_at = t, !.pc = "returned"], e, cf)
    ELSE Rs([f EXCEPT !.pc = "ar190"], e, cf)
\* a slip of response['Credentials']: the expiration is the time of issue
IssuedCredentials_NoDuration(id, t, dur) == Creds(id, t)
\* the provider's response: a credential set that expires dur after its issue
IssuedCredentials(id, t, dur) == Creds(id, t + dur)
\* a slip of lines 190, 221-243: a transport failure is tried again
RoleAr190_Retry(f, e, cf, t, ans) ==
    LET f1 == [f EXCEPT !.rpcs = @ + 1, !.signed_by = Some(Val(f.sts_client).identity),
                        !.sts_answer = ans]
    IN CASE ans = "ok" ->
              Rs([f1 EXCEPT !.credentials = Some(IssuedCredentials(f.id, t, f.dur)),
                            !.pc = "ar197"], e, cf)
         [] ans = "transient" -> Rs(f1, e, cf)
         [] OTHER ->
              Rs([f1 EXCEPT !.result = NoResult, !.returned_at = t, !.pc = "returned"], e, cf)
\* lines 190-192, and the handlers of lines 221-243: the trust exchange
RoleAr190(f, e, cf, t, ans) ==
    LET f1 == [f EXCEPT !.rpcs = @ + 1, !.signed_by = Some(Val(f.sts_client).identity),
                        !.sts_answer = ans]
    IN IF ans = "ok"
       THEN Rs([f1 EXCEPT !.credentials = Some(IssuedCredentials(f.id, t, f.dur)),
                          !.pc = "ar197"], e, cf)
       ELSE Rs([f1 EXCEPT !.result = NoResult, !.returned_at = t, !.pc = "returned"], e, cf)
\* the profile the credentials are saved to (lines 198-199)
SaveName(profile_name) == IF ~TruthyStr(profile_name) THEN "assumed-role" ELSE profile_name
\* a slip of line 197: the credentials are saved whatever save_to_profile says
RoleAr197_AlwaysSave(f, e, cf, ans) ==
    LET c == Val(f.credentials)
        io == IF ans \in IoOutcomes THEN ans ELSE "ok"
    IN Rs([f EXCEPT !.profile_name = SaveName(f.profile_name), !.save_answer = io,
                    !.pc = "ar209"], e,
          save_assumed_credentials(cf, SaveName(f.profile_name), c.AccessKeyId,
                                   c.SecretAccessKey, c.SessionToken, io).file)
\* lines 197-207: the credentials are saved if asked for; what
\* _save_assumed_credentials returns is not looked at
RoleAr197(f, e, cf, ans) ==
    IF f.save_to_profile
    THEN LET c == Val(f.credentials) IN
         Rs([f EXCEPT !.profile_name = SaveName(f.profile_name), !.save_answer = ans,
                      !.pc = "ar209"], e,
            save_assumed_credentials(cf, SaveName(f.profile_name), c.AccessKeyId,
                                     c.SecretAccessKey, c.SessionToken, ans).file)
    ELSE Rs([f EXCEPT !.pc = "ar209"], e, cf)
\* lines 209-219
RoleAr209(f, e, cf, t) ==
    Rs([f EXCEPT !.result = [success |-> TRUE,
                             profile_name |-> IF f.save_to_profile THEN f.profile_name
                                              ELSE Absent,
                             credentials |-> f.credentials],
                 !.returned_at = t, !.pc = "returned"], e, cf)

\* the answers a collaborator can give to the statement the call is at; a
\* profile answers the same way twice in one call, and credentials that do not
\* work cannot sign a trust exchange
AnswersAt(f) ==
    CASE f.pc = "sts104" -> IdentityAnswers
      [] f.pc = "sts131" ->
            IF AnswerFor(f.probed, f.profile_to_use) # NoAnswer
            THEN {AnswerFor(f.probed, f.profile_to_use)} ELSE IdentityAnswers
      [] f.pc = "ar190" ->
            IF Val(f.sts_client).answer = "invalid" THEN StsAnswers \ {"ok"} ELSE StsAnswers
      [] f.pc = "ar197" -> IF f.save_to_profile THEN IoOutcomes ELSE {NoAnswer}
      [] OTHER -> {NoAnswer}
StepRole(f, e, cf, t, ans) ==
    CASE f.pc = "ar172" -> RoleAr172(f, e, cf)
      [] f.pc = "sts77" -> RoleSts77(f, e, cf)
      [] f.pc = "sts86" -> RoleSts86(f, e, cf)
      [] f.pc = "sts104" -> RoleSts104(f, e, cf, ans)
      [] f.pc = "sts125" -> RoleSts125(f, e, cf)
      [] f.pc = "sts131" -> RoleSts131(f, e, cf, ans)
      [] f.pc = "sts146" -> RoleSts146(f, e, cf)
      [] f.pc = "ar173" -> RoleAr173(f, e, cf, t)
      [] f.pc = "ar190" -> RoleAr190(f, e, cf, t, ans)
      [] f.pc = "ar197" -> RoleAr197(f, e, cf, ans)
      [] f.pc = "ar209" -> RoleAr209(f, e, cf, t)

\* duration: int = 3600, in minutes
DefaultDuration == 60
RoleDurations == {DefaultDuration}
\* the environment the call is made in: nothing set, a base identity, or the
\* credentials of an assumed role installed over it
RoleEnvs ==
    {AllAbsent, MkEnv(BaseId, BaseId, Absent, "work"), MkEnv("A", "A", "A", "work")}
RoleCredentialsFiles ==
    {NoCredentialsFile,
     [exists |-> TRUE,
      sections |-> [n \in ProfileNames |->
                      IF n \in {"default", "work"} THEN Section("AK1", "SK1", Absent)
                      ELSE NoSection]]}
InitAssumeRole ==
    /\ env \in RoleEnvs
    /\ session = [c \in Clients |-> EmptySession]
    /\ original_credentials = NoneVal
    /\ app_original_aws_profile = NoneVal
    /\ now = 0
    /\ reqs = [i \in Slots |-> IdleReq]
    /\ started = 0
    /\ credentials_file \in RoleCredentialsFiles
    /\ config_file = NoConfigFile
    /\ environments = NoEnvironments
    /\ call = IdleRoleCall
role_frame == <<session, original_credentials, app_original_aws_profile, reqs, started,
                config_file, environments>>
\* assume_role(...) is called; one call is followed from entry to return
BeginAssumeRole(source_profile, profile_name, save_to_profile, preferred, dur) ==
    /\ call = IdleRoleCall
    /\ call' = NewRoleCall(source_profile, profile_name, save_to_profile, preferred, "B", dur)
    /\ UNCHANGED <<env, credentials_file, now>>
    /\ UNCHANGED role_frame
\* the call executes its next statement
RoleStep ==
    /\ call.pc # "returned"
    /\ \E ans \in AnswersAt(call) :
          \E x \in {StepRole(call, env, credentials_file, now, ans)} :
              /\ call' = x.f
              /\ env' = x.env
              /\ credentials_file' = x.file
    /\ UNCHANGED now
    /\ UNCHANGED role_frame
\* a minute passes
RoleTick ==
    /\ now < MaxNow
    /\ now' = now + 1
    /\ UNCHANGED <<env, credentials_file, call>>
    /\ UNCHANGED role_frame
NextAssumeRole ==
    \/ \E s \in SourceProfiles, n \in SaveNames, save \in BOOLEAN, p \in BaseProfiles,
          dur \in RoleDurations : BeginAssumeRole(s, n, save, p, dur)
    \/ RoleStep
    \/ RoleTick

SpecAssumeRole == InitAssumeRole /\ [][NextAssumeRole]_vars
\* =================================================================== claims
AllIdle == \A c \in Clients : ~IsSet(session[c].assumed_credentials)
Active(c) == IsSet(session[c].assumed_credentials)
\* the default name stands in for a profile that was not set
WithDefault(e) ==
    IF e.AWS_PROFILE = Absent THEN [e EXCEPT !.AWS_PROFILE = DefaultProfile] ELSE e
ReqAssume(c, id, dur) == NewReq(c, "assume", Absent, id, dur, "ok")
ReqRemove(c) == NewReq(c, "remove", Absent, "A", 0, "ok")
ReqStatus(c) == NewReq(c, "status", Absent, "A", 0, "ok")
LastServed == reqs["r1"]

\* the ambient context after the requests assume(id) and remove of client c,
\* and the one on entry to set_assumed_credentials
AfterCycle(c, id, dur) ==
    Run(Run(Cur, ReqAssume(c, id, dur), now).g, ReqRemove(c), now).g.env
BeforeSet(c, id, dur) == Val(Run(Cur, ReqAssume(c, id, dur), now).r.pre)

\* C1: from every reachable state with no session active, assuming a role and
\* then releasing it leaves the ambient context as it was on entry to
\* set_assumed_credentials (the default name standing in for an unset profile).
C1_RestorationCorrectness ==
    AllIdle =>
        \A c \in Clients, id \in AssumedIds, dur \in Durations :
            AfterCycle(c, id, dur) = WithDefault(BeforeSet(c, id, dur))

\* the shared state after: assume(a), a status request (its hook installs the
\* credentials), assume(b) while still active
StateAfterAssume(c, id, dur) == Run(Cur, ReqAssume(c, id, dur), now).g
StateAfterReassume(c, a, b, dur) ==
    Run(Run(StateAfterAssume(c, a, dur), ReqStatus(c), now).g, ReqAssume(c, b, dur), now).g

\* C2: assume(a), assume(b) while active, release: the ambient context is the
\* one from before a; the second assumption replaces the credentials and the
\* role label of the session and keeps the stored original context.
C2_ReassumeRestoresFirst ==
    AllIdle =>
        \A c \in Clients, dur \in Durations :
            \E g \in {StateAfterReassume(c, "A", "B", dur)} :
                /\ Run(g, ReqRemove(c), now).g.env = WithDefault(BeforeSet(c, "A", dur))
                /\ g.session[c].assumed_credentials = Some(Creds("B", now + dur))
                /\ g.session[c].assumed_role = Some(RoleOf("B"))
                /\ g.orig = StateAfterAssume(c, "A", dur).orig

\* C3: after a request whose hook found the credentials expired, with no other
\* session active, the ambient context holds no assumed-role key and an S3
\* client built by that request does not use one.
C3_ExpiryRestoresBase ==
    (LastServed.pc = "done" /\ LastServed.expired /\ AllIdle) =>
        /\ ~AssumedKeysIn(env)
        /\ LastServed.kind = "s3" => LastServed.client.kid \notin AssumedIds

\* clear_assumed_credentials() (lines 100-131) from the current state
AfterClear(c) == RunTo(St(Cur, [ReqRemove(c) EXCEPT !.pc = "c103"]), now, "a70").g
\* the expiry branch of the hook (lines 36-40, then 59-64) from the current state
AfterExpiryBranch(c) == RunTo(St(Cur, [ReqStatus(c) EXCEPT !.pc = "h37"]), now, "g135").g

\* C4: from the same active state, release and the expiry branch leave the
\* same ambient context and the same stored original context.
C4_ReleaseSameAsExpiry ==
    \A c \in Clients :
        Active(c) =>
            /\ AfterClear(c).env = AfterExpiryBranch(c).env
            /\ AfterClear(c).orig = AfterExpiryBranch(c).orig

\* C9: with no session active the stored original context is empty, and the
\* next assumption stores the ambient context of that moment.
C9_OriginalContextPerCycle ==
    AllIdle =>
        /\ ~IsSet(original_credentials)
        /\ \A c \in Clients, id \in AssumedIds, dur \in Durations :
              StateAfterAssume(c, id, dur).orig = Some(BeforeSet(c, id, dur))

\* the instant a credential set expires, as the provider stated it
ExpirationOf(creds) == creds.Expiration[1]
\* the last request served called get_session_info() for client c
ReadBy(c) ==
    /\ LastServed.pc = "done"
    /\ LastServed.c = c
    /\ LastServed.kind \in {"status", "remove"}
    /\ IsSet(LastServed.info)
PastBuffer(c) ==
    Active(c) /\ now > ExpirationOf(Val(session[c].assumed_credentials)) - Grace
AtOrPastBuffer(c) ==
    Active(c) /\ now >= ExpirationOf(Val(session[c].assumed_credentials)) - Grace
\* a session becomes active only by a request of its client that assumes a role
ActiveOnlyByAssume ==
    \A c \in Clients :
        (~Active(c) /\ Active(c)') => (LastServed'.kind = "assume" /\ LastServed'.c = c)

SetOnlyWithFutureExpiration ==
    \A c \in Clients, id \in AssumedIds, dur \in Durations :
        \E x \in {Run(Cur, ReqAssume(c, id, dur), now)} :
            /\ IsSet(x.r.result)
            /\ ExpirationOf(Val(x.r.result)) > now
            /\ x.g.session[c].assumed_credentials = x.r.result
ReportedActive ==
    /\ LastServed.pc = "done"
    /\ IsSet(LastServed.info)
    /\ Val(LastServed.info).active
ReportedExpiration == Val(Val(LastServed.info).credentials_expire)[1]

HookDecides(c) ==
    /\ Active(c)
    /\ LastServed'.pc = "done" /\ LastServed'.kind = "status" /\ LastServed'.c = c
    /\ LastServed'.expired \/ LastServed'.live
\* this step asked is_session_expired() for client c, whose session holds credentials
PredicateDecides(c) ==
    /\ Active(c)
    /\ LastServed'.pc = "done" /\ LastServed'.kind = "is_session_expired"
    /\ LastServed'.c = c
SessionExpiration(c) == ExpirationOf(Val(session[c].assumed_credentials))

MidInstall == {"h45", "h46", "h48"}
MidExpiry == {"h38"}
MidSet == {"s93", "s94", "s97"}
MidClear == {"c104", "c109k", "c109s", "c109t", "c117k", "c117s", "c117t", "c117p", "c125"}
InTransition(r) == r.pc \in MidInstall \cup MidExpiry \cup MidSet \cup MidClear

\* C7: no two requests are at the same time in the middle of a transition of
\* the session record or the ambient context.
C7_MutualExclusion ==
    \A i, j \in Slots :
        i # j => ~(InTransition(reqs[i]) /\ InTransition(reqs[j]))

\* the three values belong to one credential set (base keys carry no token)
OneCredentialSet(k, s, t) ==
    /\ k = s
    /\ t = IF k \in AssumedIds THEN k ELSE Absent
\* C8: an S3 client is never built from a mixture of credential sets, and a
\* request whose hook installed its live credentials builds its client from
\* exactly those.
C8_NoTornAmbientContext ==
    \A i \in Slots :
        (reqs[i].kind = "s3" /\ reqs[i].pc = "a70") =>
            /\ reqs[i].client.mode = "explicit" =>
                  OneCredentialSet(reqs[i].client.kid, reqs[i].client.sec, reqs[i].client.tok)
            /\ reqs[i].live =>
                  /\ reqs[i].client.mode = "explicit"
                  /\ reqs[i].client.kid = Val(reqs[i].creds).AccessKeyId
                  /\ reqs[i].client.sec = Val(reqs[i].creds).SecretAccessKey
                  /\ reqs[i].client.tok = Val(reqs[i].creds).SessionToken

\* get_session_info() called twice in a row by the handler of request r
TwoInfoCalls(g, r) == Info135(Info135(g, r).g, [r EXCEPT !.pc = "g135"])
\* C11: two get_session_info() calls in a row return the same result and
\* change neither the session record nor the ambient context; two status
\* requests at the same instant return the same result and the second leaves
\* the state as the first left it; once a request found the credentials
\* expired, every later status request reports inactive and changes nothing.
C11_ReadIdempotent ==
    \A c \in Clients :
        /\ \E r \in {[ReqStatus(c) EXCEPT !.pc = "g135"]} :
              /\ TwoInfoCalls(Cur, r).g = Cur
              /\ TwoInfoCalls(Cur, r).r.info = Info135(Cur, r).r.info
        /\ \E x \in {Run(Cur, ReqStatus(c), now)} :
              /\ \E y \in {Run(x.g, ReqStatus(c), now)} :
                    y.g = x.g /\ y.r.info = x.r.info
              /\ x.r.expired =>
                    \A t \in now..MaxNow :
                        \E z \in {Run(x.g, ReqStatus(c), t)} :
                            z.g = x.g /\ ~Val(z.r.info).active
\* a status request found the credentials expired and left the session idle
C11_Witness ==
    /\ LastServed.pc = "done" /\ LastServed.kind = "status"
    /\ LastServed.expired
    /\ ~Active(LastServed.c)

\* the credential fields of a stored or listed profile
CredentialFields(s) ==
    [o \in CredentialOptions |-> s[o]]
\* the fields a save was asked to store: no token field for None or ''
SuppliedFields(ak, sk, tok) ==
    [o \in CredentialOptions |->
        CASE o = "aws_access_key_id" -> ak
          [] o = "aws_secret_access_key" -> sk
          [] o = "aws_session_token" -> IF tok = Absent \/ tok = "" THEN Absent ELSE tok]
SavedOk == call.op = "save_credentials" /\ call.ret

\* C18: after a successful save_credentials the credential fields of the
\* profile are exactly those supplied; a save without session token leaves
\* the profile without session token.
C18_SaveOverwrites ==
    SavedOk =>
        /\ credentials_file.sections[call.profile_name].has
        /\ CredentialFields(credentials_file.sections[call.profile_name])
              = SuppliedFields(call.access_key, call.secret_key, call.session_token)

\* C19: from every store state, a successful save_credentials followed by
\* list_profiles yields the supplied credential fields for that profile, with
\* no session token field when none was given and never an empty one.
C19_StoreRoundTrip ==
    \A n \in StoreNames, kp \in KeyPairs, tok \in SessionTokens :
        \E r \in {save_credentials(credentials_file, n, kp[1], kp[2], tok, "ok")} :
            \E l \in {list_profiles(r.file, config_file)[n]} :
                /\ r.ret
                /\ l.listed
                /\ CredentialFields(l) = SuppliedFields(kp[1], kp[2], tok)
                /\ l.aws_session_token # ""

RemovedFrom(before, n) == [before EXCEPT !.sections[n] = NoSection]
RoleRemovedFrom(before, n) == [before EXCEPT !.sections[SectionName(n)] = NoConfigSection]
\* C20: removing a name that is not in the store returns not-found and changes
\* nothing; removing an existing profile returns success, the profile is gone
\* and every other profile is as before.
C20_RemoveReportsNotFound ==
    /\ (call.op = "remove_profile" /\ call.io = "ok") =>
          IF call.before.exists /\ call.before.sections[call.profile_name].has
          THEN call.ret /\ credentials_file = RemovedFrom(call.before, call.profile_name)
          ELSE ~call.ret /\ credentials_file = call.before
    /\ (call.op = "remove_role_profile" /\ call.io = "ok") =>
          IF call.config_before.exists
             /\ call.config_before.sections[SectionName(call.profile_name)].has
          THEN call.ret /\ config_file = RoleRemovedFrom(call.config_before, call.profile_name)
          ELSE ~call.ret /\ config_file = call.config_before

\* statements of assume_role after _create_sts_client has returned
AfterCreateSts == {"ar173", "ar190", "ar197", "ar209", "returned"}
RoleCallMade == call.op = "assume_role"
\* C12: once _create_sts_client has returned (with a client or with None), and
\* up to and after the return of assume_role, each of AWS_ACCESS_KEY_ID,
\* AWS_SECRET_ACCESS_KEY, AWS_SESSION_TOKEN and AWS_PROFILE has the value it had
\* when the call was made; a variable that was absent is absent
C12_IsolationReverted ==
    (RoleCallMade /\ call.pc \in AfterCreateSts) =>
        \A var \in EnvVars : env[var] = call.entry_env[var]
\* a call that cleared a non-empty environment, could not make a client, and returned
C12_Witness ==
    /\ RoleCallMade /\ call.pc = "returned"
    /\ ~IsSet(call.sts_client)
    /\ call.old_env["AWS_PROFILE"] # Absent /\ call.old_env["AWS_ACCESS_KEY_ID"] # Absent
    /\ env = call.entry_env

\* the names of the candidate list of a call
CandidateNames(f) == {ProfilesToTry(f.preferred)[k] : k \in 1..Len(ProfilesToTry(f.preferred))}
\* the environment holds the credentials of an assumed role
OverrideInstalled(e) == InEnv(e, "AWS_ACCESS_KEY_ID") /\ InEnv(e, "AWS_SESSION_TOKEN")
\* C13: a call made while the credentials of an assumed role are in the
\* environment signs its trust exchange as a named profile, the given
\* source_profile or else a name of the candidate list, and never with the
\* keys found in the environment
C13_SignedByBaseProfile ==
    (RoleCallMade /\ call.rpcs > 0 /\ OverrideInstalled(call.entry_env)) =>
        /\ IsSet(call.signed_by)
        /\ Val(call.signed_by)[1] = "profile"
        /\ Val(call.signed_by) # <<"env", call.entry_env.AWS_ACCESS_KEY_ID>>
        /\ IF TruthyStr(call.source_profile)
           THEN Val(call.signed_by)[2] = call.source_profile
           ELSE Val(call.signed_by)[2] \in CandidateNames(call)
        /\ Val(call.signed_by)[2] = call.profile_to_use
\* a trust exchange made by a call that found an override installed and was
\* given no source profile
C13_Witness ==
    /\ RoleCallMade /\ call.rpcs = 1 /\ OverrideInstalled(call.entry_env)
    /\ call.source_profile = Absent
    /\ Val(call.signed_by) = <<"profile", "infrrd-master">>

\* the profiles whose identity was checked by the call, in order
ProbedNames(f) == [k \in 1..Len(f.probed) |-> f.probed[k][1]]
\* the expected candidate list: the configured profile, then 'default', then
\* 'infrrd-master', each name once
Candidates(preferred_profile) ==
    IF preferred_profile = "default" THEN <<"default", "infrrd-master">>
    ELSE IF preferred_profile = "infrrd-master" THEN <<"infrrd-master", "default">>
    ELSE <<preferred_profile, "default", "infrrd-master">>
\* the identity check of a candidate answered with an account of the allow-list
Qualifies(ans) == ans \in ExpectedAccounts
\* statements at which the profile to use has been decided
AfterSelection == {"sts131", "sts146"} \cup AfterCreateSts
\* C14: a given source_profile is used and no candidate is probed; otherwise the
\* probes follow the order [base_profile, 'default', 'infrrd-master'] without
\* duplicates, every probe but the last one made failed or answered with an
\* account outside the allow-list, the first candidate that answers with an
\* account of the allow-list is the profile used, and 'default' is used when
\* all candidates were probed and none qualified
C14_SourceSelection ==
    RoleCallMade =>
        /\ \E n \in 0..Len(Candidates(call.preferred)) :
              ProbedNames(call) = SubSeq(Candidates(call.preferred), 1, n)
        /\ TruthyStr(call.source_profile) => call.probed = <<>>
        /\ \A k \in 1..Len(call.probed) :
              Qualifies(call.probed[k][2]) =>
                  /\ k = Len(call.probed)
                  /\ call.profile_to_use = call.probed[k][1]
        /\ call.pc \in AfterSelection =>
              IF TruthyStr(call.source_profile)
              THEN call.profile_to_use = call.source_profile
              ELSE \/ /\ Qualifies(call.probed[Len(call.probed)][2])
                      /\ call.profile_to_use = call.probed[Len(call.probed)][1]
                   \/ /\ Len(call.probed) = Len(Candidates(call.preferred))
                      /\ \A k \in 1..Len(call.probed) : ~Qualifies(call.probed[k][2])
                      /\ call.profile_to_use = "default"
\* the first candidate failed its check, the second answered with an account
\* outside the allow-list, and the third was chosen
C14_Witness ==
    /\ RoleCallMade /\ call.pc \in AfterSelection
    /\ call.preferred = "work" /\ call.source_profile = Absent
    /\ Len(call.probed) = 3
    /\ call.probed[1][2] = "missing"
    /\ call.probed[2][2] = "111111111111"
    /\ call.profile_to_use = "infrrd-master"
\* all candidates were probed and none qualified
C14_WitnessFallback ==
    /\ RoleCallMade /\ call.pc \in AfterSelection /\ call.source_profile = Absent
    /\ \A k \in 1..Len(call.probed) : ~Qualifies(call.probed[k][2])
    /\ call.profile_to_use = "default" /\ call.preferred = "infrrd-master"

\* the trust exchange did not succeed
ExchangeFailed(f) == f.sts_answer \in StsAnswers \ {"ok"}
\* C15: a call issues the trust exchange at most once, and an exchange that
\* fails, whether rejected by the provider or lost in transport, ends the call:
\* the failure is what the call returns and no further exchange is made
C15_NoRetry ==
    RoleCallMade =>
        /\ call.rpcs <= 1
        /\ ExchangeFailed(call) =>
              /\ call.rpcs = 1
              /\ call.pc = "returned"
              /\ ~call.result.success
              /\ ~IsSet(call.credentials)
\* a call whose exchange failed in transport has returned
C15_Witness ==
    /\ RoleCallMade /\ call.pc = "returned" /\ call.rpcs = 1
    /\ call.sts_answer = "transient" /\ ~call.result.success

\* the call returned a credential set
RoleCallSucceeded == RoleCallMade /\ call.pc = "returned" /\ call.result.success
\* the section of a profile that holds exactly the returned credentials
SavedSection(c) == Section(c.AccessKeyId, c.SecretAccessKey, c.SessionToken)
\* C16 as stated: after a call of assume_role, with any arguments, the
\* credentials file is what it was when the call was made
C16_PersistsNothing ==
    (RoleCallMade /\ call.pc = "returned") => credentials_file = call.entry_file
\* C16 as the code has it: a call that fails, or is made with
\* save_to_profile=False, leaves the credentials file as it was; a successful
\* call with save_to_profile=True (the default) leaves every profile but
\* profile_name (or 'assumed-role' when none is given) as it was, and writes the
\* three returned fields to that profile when the file can be written
C16_SavesOnlyWhenAsked ==
    (RoleCallMade /\ call.pc = "returned") =>
        IF ~call.result.success \/ ~call.save_to_profile
        THEN credentials_file = call.entry_file
        ELSE /\ call.profile_name \in ProfileNames
             /\ call.result.profile_name = call.profile_name
             /\ call.save_answer = "ok" =>
                   /\ credentials_file.exists
                   /\ credentials_file.sections[call.profile_name]
                        = SavedSection(Val(call.credentials))
                   /\ \A n \in ProfileNames \ {call.profile_name} :
                         credentials_file.sections[n] = call.entry_file.sections[n]
\* a default call (no profile_name, save_to_profile=True) returned with the
\* returned credentials written to the profile 'assumed-role'
C16_Witness ==
    /\ RoleCallSucceeded /\ call.save_to_profile
    /\ call.profile_name = "assumed-role"
    /\ credentials_file.sections["assumed-role"] = SavedSection(Val(call.credentials))
    /\ credentials_file # call.entry_file

\* set_assumed_credentials(credentials, role) made by client c at instant t
\* with the credential set the call returned
SetReturned(c, t) ==
    RunFrom(St(Cur, [ReqAssume(c, call.id, call.dur) EXCEPT
                        !.pc = "s81", !.result = call.result.credentials]), t)
SaveFailed(f) == f.save_to_profile /\ f.save_answer \in IoOutcomes \ {"ok"}
\* C21: an operation whose write to the credentials file failed returns a
\* failure; assume_role with save_to_profile enabled does not return success,
\* nor name a profile as saved, when the file could not be written
C21_WriteFailureReported ==
    (RoleCallMade /\ call.pc = "returned" /\ SaveFailed(call)) =>
        /\ ~call.result.success
        /\ call.result.profile_name = Absent

\* neither ~/.aws/credentials nor ~/.aws/config exists
StoreMissing(cf, cfg) == ~cf.exists /\ ~cfg.exists
\* a credentials file that holds the profile n with the given fields and nothing else
OnlyProfile(n, ak, sk, tok) ==
    [exists |-> TRUE,
     sections |-> [m \in ProfileNames |-> IF m = n THEN Section(ak, sk, tok) ELSE NoSection]]
\* C22: while neither file exists, list_profiles and list_role_profiles return
\* the empty mapping, and a save of credentials that completes creates the
\* credentials file with the saved profile and no other
C22_MissingStoreIsEmpty ==
    /\ StoreMissing(credentials_file, config_file) =>
          /\ list_profiles(credentials_file, config_file) = NoListing
          /\ \A order \in SectionOrders :
                list_role_profiles(config_file, order) = NoRoleListing
    /\ (call.op \in {"list_profiles", "list_role_profiles"}
          /\ StoreMissing(call.before, call.config_before)) =>
          /\ call.ret
          /\ call.listing = NoListing
          /\ call.role_listing = NoRoleListing
    /\ (call.op = "save_credentials" /\ ~call.before.exists /\ call.io = "ok") =>
          /\ call.ret
          /\ credentials_file =
                OnlyProfile(call.profile_name, call.access_key, call.secret_key,
                            IF TruthyStr(call.session_token) THEN call.session_token
                            ELSE Absent)
\* a save into a missing store returned: the file exists and holds one profile
C22_Witness ==
    /\ call.op = "save_credentials" /\ ~call.before.exists /\ call.ret
    /\ credentials_file.exists
    /\ credentials_file.sections["work"] = Section("AK2", "SK2", "T1")
    /\ ~credentials_file.sections["default"].has
\* the role profiles were listed while neither file existed
C22_WitnessListing ==
    /\ call.op = "list_role_profiles"
    /\ StoreMissing(call.before, call.config_before)
    /\ call.role_listing = NoRoleListing

\* what get_current_environment() returns in this state
CurrentEnvironment == get_current_environment(config_file, environments)
\* the last call was a switch_environment that returned True
SwitchSucceeded == call.op = "switch_environment" /\ call.ret
Before(envs, env_name) ==
    SubSeq(envs, 1, (CHOOSE k \in 1..Len(envs) : envs[k].name = env_name) - 1)
SwitchedToUnknown ==
    /\ call.op = "switch_environment"
    /\ call.env_name \notin EnvironmentNames(call.environments_before)
\* C24: switch_environment with a name that is not in the registry returns
\* False and leaves the config file, with [profile default] and every other
\* section, as it was, so that get_current_environment() returns what it
\* returned before
C24_UnknownNameChangesNothing ==
    SwitchedToUnknown =>
        /\ ~call.ret
        /\ config_file = call.config_before
        /\ environments = call.environments_before
        /\ CurrentEnvironment
              = get_current_environment(call.config_before, call.environments_before)
\* a switch to an unknown name was made while an environment was current and
\* another role profile was in the file
C24_Witness ==
    /\ SwitchedToUnknown /\ call.env_name = "missing"
    /\ CurrentEnvironment = "dev"
    /\ config_file.sections[<<"profile", "work">>].has

\* the sections of the config file that link a profile to a role
RoleBindings(f) == {s \in ConfigSections : f.sections[s].has /\ f.sections[s].role_arn # Absent}
\* C25: after a successful switch_environment the config file has exactly one
\* role binding, [profile default], holding the role_arn and region of the
\* named environment and source_profile 'infrrd-master'; no other section,
\* whatever its name, links a profile to a role
C25_SingleBinding ==
    SwitchSucceeded =>
        /\ RoleBindings(config_file) = {<<"profile", "default">>}
        /\ \E e \in {EnvironmentOf(environments, call.env_name)} :
              config_file.sections[<<"profile", "default">>]
                 = RoleSection(e.role_arn, e.region, "infrrd-master")

\* the entry k of the registry has the role_arn and region of [profile default]
MatchesBinding(k) ==
    /\ environments[k].role_arn = config_file.sections[<<"profile", "default">>].role_arn
    /\ environments[k].region = config_file.sections[<<"profile", "default">>].region
HasBinding == config_file.exists /\ config_file.sections[<<"profile", "default">>].has
\* C26: get_current_environment() returns the name of the first entry of the
\* registry whose role_arn and region both equal those of [profile default],
\* and None when no entry matches, when the config file is missing, or when it
\* has no [profile default]
C26_FirstExactMatch ==
    /\ ~HasBinding => CurrentEnvironment = Absent
    /\ HasBinding =>
          IF \E k \in 1..Len(environments) : MatchesBinding(k)
          THEN \E k \in 1..Len(environments) :
                  /\ MatchesBinding(k)
                  /\ \A j \in 1..(k - 1) : ~MatchesBinding(j)
                  /\ CurrentEnvironment = environments[k].name
          ELSE CurrentEnvironment = Absent
    /\ call.op = "get_current_environment" => call.current_environment = CurrentEnvironment
\* the read returned the second entry: the first has the role of the binding
\* but another region
C26_Witness ==
    /\ call.op = "get_current_environment" /\ call.current_environment = "prod"
    /\ Len(environments) = 2 /\ environments[2].name = "prod"
    /\ environments[1].role_arn = environments[2].role_arn
    /\ environments[1].region # environments[2].region
\* the read returned None with a binding in place that no entry matches
C26_WitnessUnknown ==
    /\ call.op = "get_current_environment" /\ call.current_environment = Absent
    /\ HasBinding /\ Len(environments) = 2

\* C27: whenever POST /api/switch_environment rewrites the default binding, the
\* session of the caller holds no assumed credentials and os.environ holds no
\* key of an assumed role at the moment switch_environment is called.
BindingRewritten == call.op = "switch_environment" /\ call.ret
\* the half of C27 about the session of the caller
C27_SessionEndedFirst == BindingRewritten => ~call.session_active
C27_NoIdentityMixing ==
    BindingRewritten => ~call.session_active /\ ~call.keys_in_ambient

\* C28: after every before-request hook that finds no live assumed credentials
\* in the session (none, or just expired), os.environ has AWS_PROFILE set, to
\* the profile the process was configured with if there was one and otherwise
\* to 'default', and holds nothing but that base profile.
\* AfterHook(c): the request of client c when its hook has returned.
AfterHook(c) == RunTo(St(Cur, ReqStatus(c)), now, HandlerStart("status"))
ConfiguredProfiles ==
    {IF InEnv(e, "AWS_PROFILE") THEN e.AWS_PROFILE ELSE DefaultProfile : e \in ApiEnvs}
\* the part of C28 that lines 60-61 give: some profile name is set
C28_ProfileSet ==
    \A c \in Clients :
       \E x \in {AfterHook(c)} : ~x.r.live => InEnv(x.g.env, "AWS_PROFILE")
C28_IdleSteadyState ==
    \A c \in Clients :
       \E x \in {AfterHook(c)} :
          ~x.r.live => /\ x.g.env.AWS_PROFILE \in ConfiguredProfiles
                       /\ ~AssumedKeysIn(x.g.env)

\* C29: a status request changes neither the session record, the stored
\* original context, the credentials file nor the environment binding, except
\* that an expired credential set is dropped from the session (the lazy expiry
\* transition); and the session information it reports is never active for
\* credentials that are past their expiration minus the grace buffer.
\* Lapsed(c): the session of c holds a credential set past expiration - Grace.
Lapsed(c) ==
    /\ IsSet(session[c].assumed_credentials)
    /\ now > FromIsoFormat(ReplaceZ(Val(session[c].assumed_credentials).Expiration)) - Grace
StatusServed == LastServed.pc = "done" /\ LastServed.kind = "status"
C29_WitnessActive ==
    /\ StatusServed /\ Val(LastServed.info).active
    /\ IsSet(session[LastServed.c].assumed_credentials)

\* C30: a failed assumption changes nothing. When assume_role fails (no client
\* for the base credentials, or the provider rejects the exchange) the handler
\* of POST /api/assume_role gets no credentials, does not call
\* set_assumed_credentials, and the sessions, the stored original context, the
\* stashed profile name and os.environ are, when the handler has finished, what
\* they were when it started; and no served assume-role request changes
\* ~/.aws/credentials or ~/.aws/config.
Failures == Outcomes \ {"ok"}
AtHandler(c, dur, o) ==
    RunTo(St(Cur, NewReq(c, "assume", Absent, "A", dur, o)), now, HandlerStart("assume"))
AssumeServed == LastServed.pc = "done" /\ LastServed.kind = "assume"
C30_FailedAssumptionChangesNothing ==
    /\ [](\A c \in Clients, dur \in Durations, o \in Failures :
            \E h \in {AtHandler(c, dur, o)} :
               \E f \in {RunTo(h, now, "a70")} :
                  /\ ~IsSet(f.r.result)
                  /\ f.g.session = h.g.session
                  /\ f.g.orig = h.g.orig
                  /\ f.g.appProf = h.g.appProf
                  /\ f.g.env = h.g.env)
    /\ [][(AssumeServed' /\ reqs' # reqs)
          => /\ credentials_file' = credentials_file
             /\ config_file' = config_file]_vars
\* an assume-role request was served and failed: the session of its client is
\* empty, while os.environ still holds the profile name the process started with
C30_Witness ==
    /\ AssumeServed
    /\ session[LastServed.c] = EmptySession
    /\ env.AWS_PROFILE = "work"
\* the same below the API, in AWSRoleManager.assume_role itself: a call that
\* returned a failure left os.environ and the credentials file as at its entry
C30_RoleFailureChangesNothing ==
    (RoleCallMade /\ call.pc = "returned" /\ ~call.result.success)
        => /\ env = call.entry_env
           /\ credentials_file = call.entry_file
           /\ ~IsSet(call.result.credentials)

\* C31: a request of a browser session that holds no assumed credentials never
\* runs its handler with AWS_ACCESS_KEY_ID, AWS_SECRET_ACCESS_KEY or
\* AWS_SESSION_TOKEN of an assumed role in os.environ, whatever the other
\* sessions did before.
\* AtS3Handler(c): the S3 request of client c when its hook has returned and
\* _create_s3_client is about to read os.environ.
AtS3Handler(c) ==
    RunTo(St(Cur, NewReq(c, "s3", Absent, "A", 0, "ok")), now, HandlerStart("s3"))
C31_CrossSessionNonInterference ==
    \A c \in Clients :
       ~IsSet(session[c].assumed_credentials)
          => \E x \in {AtS3Handler(c)} : ~AssumedKeysIn(x.g.env)

\* C32: in every reachable state, also of a process started while a session
\* cookie already carries live assumed credentials, the stored original
\* context holds no key of an assumed role, so clear_assumed_credentials
\* never puts one back into os.environ.
\* In a process that started with empty sessions the snapshot is clean:
C32_SnapshotCleanFromFreshStart ==
    IsSet(original_credentials) => ~AssumedKeysIn(Val(original_credentials))
\* the access key or the session token that clear_assumed_credentials puts
\* back (lines 117-122) is never one of an assumed role
C32_OriginalContextHoldsBaseOnly ==
    /\ IsSet(original_credentials) => ~AssumedKeysIn(Val(original_credentials))
    /\ \A c \in Clients :
          Active(c) => \E x \in {Run(Cur, ReqRemove(c), now)} : ~AssumedKeysIn(x.g.env)

\* C33: whenever the before-request hook finds live (unexpired) assumed
\* credentials in the session, then on entry to the request handler
\* AWS_ACCESS_KEY_ID, AWS_SECRET_ACCESS_KEY and AWS_SESSION_TOKEN in os.environ
\* are those of the session's credential set and AWS_PROFILE is not in
\* os.environ.
HookedKinds == {"assume", "remove", "status"}
AtHandlerOf(c, kind) ==
    RunTo(St(Cur, NewReq(c, kind, Absent, "B", MaxDuration, "ok")), now, HandlerStart(kind))
C33_ActiveInstallation ==
    \A c \in Clients, kind \in HookedKinds :
       \E x \in {AtHandlerOf(c, kind)} :
          (Active(c) /\ ~Lapsed(c)) =>
             /\ x.r.live
             /\ \E creds \in {Val(session[c].assumed_credentials)} :
                   /\ x.g.env.AWS_ACCESS_KEY_ID = creds.AccessKeyId
                   /\ x.g.env.AWS_SECRET_ACCESS_KEY = creds.SecretAccessKey
                   /\ x.g.env.AWS_SESSION_TOKEN = creds.SessionToken
             /\ ~InEnv(x.g.env, "AWS_PROFILE")
\* a status request whose hook found the credentials of the cookie live, in a
\* process started with base keys: they were replaced and the profile removed
C33_Witness ==
    /\ StatusServed /\ LastServed.live
    /\ Active(LastServed.c)
    /\ env.AWS_ACCESS_KEY_ID = Val(session[LastServed.c].assumed_credentials).AccessKeyId
    /\ env.AWS_SESSION_TOKEN = Val(session[LastServed.c].assumed_credentials).SessionToken
    /\ ~InEnv(env, "AWS_PROFILE")

\* C34: while one request is inside _create_sts_client with the credential
\* variables removed from os.environ, no other request whose hook installed
\* the live credentials of its session finds os.environ without them when its
\* handler reads it; and the restore in the finally block never writes over a
\* value another request has put into os.environ in the meantime.
InIsolationWindow(r) == r.kind = "assume" /\ r.pc \in {"sts85", "sts146"}
ReadsEnviron(r) == r.kind = "s3" /\ r.pc \in {"s3_29", "s3_32", "s3_33", "s3_34"}
C34_WindowNotObserved ==
    \A i, j \in Slots :
       (i # j /\ InIsolationWindow(reqs[i])) =>
          /\ (reqs[j].live /\ ReadsEnviron(reqs[j])) =>
                /\ env.AWS_ACCESS_KEY_ID = Val(reqs[j].creds).AccessKeyId
                /\ env.AWS_SECRET_ACCESS_KEY = Val(reqs[j].creds).SecretAccessKey
                /\ env.AWS_SESSION_TOKEN = Val(reqs[j].creds).SessionToken
          /\ reqs[i].pc = "sts146" =>
                \A var \in EnvVars :
                   Val(reqs[i].old_env)[var] # Absent => env[var] = Absent
\* the second half alone: the restore overwrites nothing
C34_RestoreOverwritesNothing ==
    \A i \in Slots :
       (InIsolationWindow(reqs[i]) /\ reqs[i].pc = "sts146") =>
          \A var \in EnvVars : Val(reqs[i].old_env)[var] # Absent => env[var] = Absent
\* the first half alone: a request with live credentials reads them
C34_LiveRequestReadsItsCredentials ==
    \A i, j \in Slots :
       (i # j /\ InIsolationWindow(reqs[i]) /\ reqs[j].live /\ ReadsEnviron(reqs[j])) =>
          /\ env.AWS_ACCESS_KEY_ID = Val(reqs[j].creds).AccessKeyId
          /\ env.AWS_SECRET_ACCESS_KEY = Val(reqs[j].creds).SecretAccessKey
          /\ env.AWS_SESSION_TOKEN = Val(reqs[j].creds).SessionToken

\* C35: between requests a session holds an assumed role label if and only if
\* it holds assumed credentials; an assumption that succeeds sets both, and
\* the expiry branch of the hook and clear_assumed_credentials remove both.
HoldsBoth(s) == IsSet(s.assumed_credentials) /\ IsSet(s.assumed_role)
HoldsNeither(s) == ~IsSet(s.assumed_credentials) /\ ~IsSet(s.assumed_role)
C35_SessionFieldsMoveTogether ==
    \A c \in Clients :
       /\ HoldsBoth(session[c]) \/ HoldsNeither(session[c])
       /\ \A dur \in Durations :
             \E x \in {Run(Cur, ReqAssume(c, "B", dur), now)} :
                /\ x.g.session[c].assumed_credentials = Some(Creds("B", now + dur))
                /\ x.g.session[c].assumed_role = Some(RoleOf("B"))
       /\ Active(c) => HoldsNeither(Run(Cur, ReqRemove(c), now).g.session[c])
       /\ Lapsed(c) => HoldsNeither(Run(Cur, ReqStatus(c), now).g.session[c])
\* a remove request met an active session and left it with neither field
C35_Witness ==
    /\ LastServed.pc = "done" /\ LastServed.kind = "remove"
    /\ IsSet(LastServed.info) /\ Val(LastServed.info).active
    /\ HoldsNeither(session[LastServed.c])
\* the hook met an expired credential set and left the session with neither field
C35_WitnessExpiry ==
    /\ LastServed.pc = "done" /\ LastServed.expired
    /\ HoldsNeither(session[LastServed.c])

\* C36: after a successful switch_profile(p), once the session is idle again
\* the ambient profile (get_current_profile) is p, whatever assumptions,
\* expiries and releases happened in between, and whether the switch was made
\* while idle or while active.
\* credentials.py 104-106: os.environ.get('AWS_PROFILE', 'default')
get_current_profile(e) == IF InEnv(e, "AWS_PROFILE") THEN e.AWS_PROFILE ELSE DefaultProfile
ReqSwitchProfile(c, p) == NewReq(c, "switch_profile", p, "A", 0, "ok")
\* the shared state after switch_profile(p), an assumption if no role is
\* assumed yet, and the release of the role, all by client c
AfterSwitchAndRelease(c, p) ==
    LET g1 == Run(Cur, ReqSwitchProfile(c, p), now).g
        g2 == IF IsSet(g1.session[c].assumed_credentials) THEN g1
              ELSE Run(g1, ReqAssume(c, "A", MaxDuration), now).g
    IN Run(g2, ReqRemove(c), now).g
OthersIdle(c) == \A d \in Clients \ {c} : ~Active(d)
C36_ProfileSwitchDurable ==
    \A c \in Clients, p \in Profiles :
       OthersIdle(c) =>
          \E g \in {AfterSwitchAndRelease(c, p)} :
             /\ \A d \in Clients : ~IsSet(g.session[d].assumed_credentials)
             /\ get_current_profile(g.env) = p
\* the same for a switch made while no role is assumed and none was before
C36_DurableInFirstCycle ==
    \A c \in Clients, p \in Profiles :
       (AllIdle /\ ~IsSet(original_credentials) /\ ~IsSet(app_original_aws_profile)) =>
          get_current_profile(AfterSwitchAndRelease(c, p).env) = p

\* C37: remove_assume_role removes a profile only if that profile exists and
\* has a session token; for a missing credentials file, a missing profile or
\* a profile without session token it returns failure and leaves the file
\* unchanged; on success exactly that one profile is removed. (A write that
\* fails part-way is none of these cases: failure is returned then.)
RemoveCalled == call.op = "remove_assume_role"
Removable ==
    /\ call.before.exists
    /\ call.before.sections[call.profile_name].has
    /\ call.before.sections[call.profile_name].aws_session_token # Absent
C37_RemovesOnlyAssumedRole ==
    RemoveCalled =>
       /\ ~Removable => (~call.ret /\ credentials_file = call.before)
       /\ call.ret => /\ Removable
                      /\ credentials_file = RemovedFrom(call.before, call.profile_name)
       /\ (Removable /\ call.io = "ok") => call.ret
       /\ call.io # "write_fails" =>
             \A m \in ProfileNames :
                (call.before.sections[m].has /\ ~credentials_file.sections[m].has)
                   => (m = call.profile_name /\ Removable /\ call.ret)
\* the profile with a token was removed and the base profile next to it stayed
C37_Witness ==
    /\ RemoveCalled /\ call.ret
    /\ call.profile_name = "work"
    /\ ~credentials_file.sections["work"].has
    /\ credentials_file.sections["default"].has
    /\ credentials_file.sections["default"].aws_session_token = Absent
\* a base profile was named: it was refused and is still there
C37_WitnessRefused ==
    /\ RemoveCalled /\ ~call.ret /\ call.io = "ok"
    /\ call.profile_name = "default"
    /\ credentials_file.sections["default"].has
    /\ credentials_file.sections["default"].aws_session_token = Absent

\* C38: clean_expired_credentials removes exactly the profiles that have
\* access key, secret key and session token and whose identity check failed
\* with an expiry error; a profile without session token, one whose check
\* succeeds and one whose check fails for another reason are kept unchanged;
\* and cleaned_count is the number of profiles removed.
CleanCalled == call.op = "clean_expired_credentials"
HasAllThree(sec) ==
    /\ sec.aws_access_key_id # Absent
    /\ sec.aws_secret_access_key # Absent
    /\ sec.aws_session_token # Absent
RemovedByClean ==
    {n \in ProfileNames : call.before.sections[n].has /\ ~credentials_file.sections[n].has}
C38_CleansExactlyExpired ==
    CleanCalled =>
       /\ (call.before.exists /\ call.io = "ok") =>
             /\ call.ret
             /\ \A n \in ProfileNames :
                   IF /\ call.before.sections[n].has
                      /\ HasAllThree(call.before.sections[n])
                      /\ call.answers[n] = "ExpiredToken"
                   THEN ~credentials_file.sections[n].has
                   ELSE credentials_file.sections[n] = call.before.sections[n]
             /\ call.cleaned_count = Some(Cardinality(RemovedByClean))
       /\ (~call.before.exists \/ call.io = "open_fails") =>
             /\ ~call.ret
             /\ ~IsSet(call.cleaned_count)
             /\ credentials_file = call.before
       /\ call.ret => (call.before.exists /\ call.io = "ok")
\* one call removed the expired 'work' and kept 'default', which has a token
\* too but whose check failed for another reason
C38_Witness ==
    /\ CleanCalled /\ call.ret
    /\ call.cleaned_count = Some(1)
    /\ RemovedByClean = {"work"}
    /\ call.answers["default"] = "InvalidClientTokenId"
    /\ credentials_file.sections["default"].has
    /\ credentials_file.sections["default"].aws_session_token # Absent
\* a profile without session token was kept although its check would have
\* failed with an expiry error
C38_WitnessNoToken ==
    /\ CleanCalled /\ call.ret
    /\ call.answers["default"] = "ExpiredToken"
    /\ credentials_file.sections["default"].has
    /\ credentials_file.sections["default"].aws_session_token = Absent
====
